---- MODULE Spec2Model ----
(***************************************************************************)
(* A model of aitdocs (ai_document_translator): the Markdown splitter of   *)
(* DocumentTranslator / MarkdownSplitter, the incremental directory run of *)
(* DocumentTranslator.translate_markdown_directory with its checkpoint     *)
(* file, the job of translate_markdown_file, CacheManager, the ignore      *)
(* rules with their fingerprint, the enumeration of the Markdown files,    *)
(* the command line entry point main and BuildManager.                     *)
(*                                                                         *)
(* Text is a sequence of one-character tokens.  The token "bt" stands for  *)
(* the backtick, which cannot be written inside a TLA+ string.             *)
(***************************************************************************)
EXTENDS Integers, Sequences, FiniteSets, TLC

VARIABLES
    content,        \* the document handed to the splitter
    chunk_size,     \* self.chunk_size
    chunks,         \* the list returned by _split_markdown_content
    spc             \* "input" before the call, "done" after it

svars == <<content, chunk_size, chunks, spc>>

VARIABLES
    disk,               \* the Markdown files under the processing root: path -> content, 0 = no file
    commits,            \* the git history: the committed content of every path, oldest first
    root_prefix,        \* the processing root relative to the repository root
    gitignore,          \* the lines of .gitignore in the processing root
    aitdocsignore,      \* the lines of .aitdocsignore in the processing root
    state_file,         \* the checkpoint file .aitdocs_state
    pc,                 \* "idle", "translating" (inside the for loop), "done" (returned)
    incremental,        \* the incremental argument of the run
    ignore_patterns,    \* the caller's ignore_patterns list object
    markdown_files,     \* the files the for loop has still to translate
    translated_files,   \* the list the run returns
    runs,               \* the number of runs made
    candidates,         \* what _get_markdown_files returned in this run
    selected,           \* what the run decided to translate
    branch,             \* the return statement _get_changed_files_with_ignores left by
    state_before,       \* the checkpoint file when the run started
    current_commit,     \* current_commit of the change detection
    current_ignore_hash,\* current_ignore_hash of the change detection
    attempted,          \* the files translate_markdown_file was called for
    write_failed,       \* the last checkpoint write raised
    failures,           \* the number of translations that have failed
    failed              \* the files of the run whose job raised

rvars == <<disk, commits, root_prefix, gitignore, aitdocsignore, state_file, pc, incremental,
           ignore_patterns, markdown_files, translated_files, runs, candidates, selected,
           branch, state_before, current_commit, current_ignore_hash, attempted, write_failed,
           failures, failed>>

VARIABLES
    translated_chunks,  \* translated_chunks of translate_markdown_content
    output_file,        \* the text of the file at output_path, NoFile when there is none
    job                 \* where translate_markdown_file is: "idle", "translating",
                        \* "written" (returned), "failed" (raised), "interrupted"

jvars == <<translated_chunks, output_file, job>>

VARIABLES
    cache_files,        \* the cache directory: content -> text of its file, NoFile when none
    expect,             \* per content, what a get is to return: the text of the last
                        \* successful put, None before any put, Unknown after a put that failed
    got                 \* the last call of the cache manager: what it returned, whether an
                        \* exception was caught, whether a put found an entry of the content

cvars == <<cache_files, expect, got>>

VARIABLES
    caller_list,        \* an ignore_patterns list of a caller
    reordered,          \* the same patterns in another order
    changed,            \* the list after one pattern was added, removed or edited
    fingerprints,       \* what _calculate_ignore_hash returned for the three lists
    query,              \* the last call of _should_ignore: path, is_dir and result
    ipc                 \* what was called last: "input", "hashed", "asked"

ivars == <<caller_list, reordered, changed, fingerprints, query, ipc>>

VARIABLES
    tree,               \* the files below a directory handed to _get_markdown_files
    walk_patterns,      \* the ignore_patterns argument of that call
    visited,            \* the directories os.walk yielded
    listed,             \* the files the call returned
    wpc                 \* "input" before the call, "done" after it

wvars == <<tree, walk_patterns, visited, listed, wpc>>

VARIABLES
    in_flight           \* the files whose translate_markdown_file call has not returned

lvars == <<in_flight>>

VARIABLES
    args,               \* the parsed command line and what it names on disk
    service,            \* whether the translation service answers the requests
    exit_code,          \* what main returned
    requests,           \* the translation requests main has caused
    outputs,            \* the translated files main has caused to be written
    mpc                 \* "input" before main is called, "done" after it returned

mvars == <<args, service, exit_code, requests, outputs, mpc>>

VARIABLES
    build_files,        \* the files of the directory BuildManager works on: path -> content
    build_original,     \* the directory as it was before the first prepare
    prepares,           \* the calls of prepare_build_environment since then
    bpc                 \* "input", "prepared" or "restored"

bvars == <<build_files, build_original, prepares, bpc>>

VARIABLES
    scan,               \* the line loop of the splitter: chunks, current_chunk,
                        \* in_code_block and code_block_fence
    line_no             \* the lines of the document the loop has processed

hvars == <<scan, line_no>>

nvars == <<ivars, wvars, lvars, mvars, bvars, hvars>>

vars == <<svars, rvars, jvars, cvars, nvars>>

----------------------------------------------------------------------------
(* Characters and string helpers (Python str methods)                      *)

NL == "\n"
SP == " "
BT == "bt"
TL == "~"
HS == "#"

\* str.isspace on one character, as used by strip(), rstrip() and \s
IsSpace(c) == c \in {" ", "\n", "\t"}

\* s.startswith(p)
startswith(s, p) == Len(s) >= Len(p) /\ SubSeq(s, 1, Len(p)) = p

\* s.endswith(p)
endswith(s, p) == Len(s) >= Len(p) /\ SubSeq(s, Len(s) - Len(p) + 1, Len(s)) = p

\* s[:n]
Prefix(s, n) == SubSeq(s, 1, IF n < Len(s) THEN n ELSE Len(s))

\* s[n:]
Suffix(s, n) == SubSeq(s, n + 1, Len(s))

\* s.rstrip()
RECURSIVE rstrip(_)
rstrip(s) ==
    IF s = <<>> THEN s
    ELSE IF IsSpace(s[Len(s)]) THEN rstrip(SubSeq(s, 1, Len(s) - 1))
    ELSE s

\* s.lstrip()
RECURSIVE lstrip(_)
lstrip(s) ==
    IF s = <<>> THEN s
    ELSE IF IsSpace(s[1]) THEN lstrip(Tail(s))
    ELSE s

\* s.strip()
strip(s) == lstrip(rstrip(s))

\* s.split('\n')
RECURSIVE split_lines(_)
split_lines(s) ==
    IF \A i \in 1..Len(s) : s[i] # NL THEN <<s>>
    ELSE LET k == CHOOSE i \in 1..Len(s) : s[i] = NL /\ \A j \in 1..(i - 1) : s[j] # NL
         IN  <<SubSeq(s, 1, k - 1)>> \o split_lines(SubSeq(s, k + 1, Len(s)))

\* '\n'.join(lines)
RECURSIVE join_lines(_)
join_lines(ls) ==
    IF ls = <<>> THEN <<>>
    ELSE IF Len(ls) = 1 THEN ls[1]
    ELSE ls[1] \o <<NL>> \o join_lines(Tail(ls))

----------------------------------------------------------------------------
(* re.split on a newline, any whitespace, a newline (one capture group):  *)
(* the text pieces and the captured separators, alternating.               *)
(* A separator starts at the leftmost newline                              *)
(* that is followed, inside the same run of whitespace, by another         *)
(* newline, and, the match being greedy, ends at the last newline of it.   *)

\* last index of the whitespace run that starts at i
RECURSIVE SpaceRunEnd(_, _)
SpaceRunEnd(s, i) ==
    IF i < Len(s) /\ IsSpace(s[i + 1]) THEN SpaceRunEnd(s, i + 1) ELSE i

\* the end of the separator starting at i, or 0 when none starts there
SeparatorEnd(s, i) ==
    IF s[i] # NL THEN 0
    ELSE LET e  == SpaceRunEnd(s, i)
             js == {j \in (i + 1)..e : s[j] = NL}
         IN  IF js = {} THEN 0 ELSE CHOOSE j \in js : \A k \in js : k <= j

RECURSIVE re_split(_)
re_split(s) ==
    LET starts == {i \in 1..Len(s) : SeparatorEnd(s, i) # 0}
    IN  IF starts = {} THEN <<s>>
        ELSE LET i == CHOOSE a \in starts : \A b \in starts : a <= b
                 j == SeparatorEnd(s, i)
             IN  <<SubSeq(s, 1, i - 1), SubSeq(s, i, j)>> \o re_split(Suffix(s, j))

----------------------------------------------------------------------------
(* DocumentTranslator._split_markdown_content and _split_large_chunk       *)
(* (MarkdownSplitter.split_content and _split_large_chunk are the same     *)
(* code, line for line).                                                   *)

\* '#' * 40, the length of a rule line that is not taken for a heading
HeaderRuleLen == 40

\* the fence test of the loop: a line that starts with three backticks or tildes
is_fence_line(line) == startswith(line, <<BT, BT, BT>>) \/ startswith(line, <<TL, TL, TL>>)

\* entering or leaving a code block on a fence line
fence_update(st, line) ==
    IF is_fence_line(line)
    THEN IF ~st.in_code_block
         THEN [st EXCEPT !.in_code_block = TRUE, !.code_block_fence = Prefix(line, 3)]
         ELSE IF startswith(line, st.code_block_fence)
              THEN [st EXCEPT !.in_code_block = FALSE, !.code_block_fence = <<>>]
              ELSE st
    ELSE st

\* line_length = len(line) + 1
line_length(line) == Len(line) + 1

\* the limit test with >= in place of >
exceeds_limit_ge(current_chunk, line, size) ==
    Len(current_chunk) + line_length(line) >= size

\* len(current_chunk) + line_length > self.chunk_size
exceeds_limit(current_chunk, line, size) == Len(current_chunk) + line_length(line) > size

\* is_header without the test for a rule line
is_header_any_hash(line) == startswith(line, <<HS>>)

\* is_header
is_header(line) ==
    /\ startswith(line, <<HS>>)
    /\ ~(Len(line) >= HeaderRuleLen /\ \A i \in 1..HeaderRuleLen : line[i] = HS)

\* current_chunk.strip() is truthy
non_blank(s) == \E i \in 1..Len(s) : ~IsSpace(s[i])

\* the heading split: is_header and current_chunk.strip() and
\* len(current_chunk) > self.chunk_size * 0.5
header_split(current_chunk, line, size) ==
    is_header(line) /\ non_blank(current_chunk) /\ 2 * Len(current_chunk) > size

\* chunks.append(current_chunk.rstrip()) under "if current_chunk.strip()"
flush(chunk_list, current_chunk) ==
    IF non_blank(current_chunk) THEN Append(chunk_list, rstrip(current_chunk)) ELSE chunk_list

\* a line inside a code block: it is added to the current chunk, never flushed
append_code_line(st, line, size) ==
    IF exceeds_limit(st.current_chunk, line, size) /\ ~endswith(st.current_chunk, <<NL>>)
    THEN [st EXCEPT !.current_chunk = @ \o <<NL>> \o line]
    ELSE [st EXCEPT !.current_chunk = @ \o line \o <<NL>>]

\* a line outside a code block, the chunk in progress dropped instead of saved
\* when the limit is reached
append_text_line_drop(st, line, size) ==
    IF exceeds_limit(st.current_chunk, line, size)
    THEN [st EXCEPT !.current_chunk = line \o <<NL>>]
    ELSE IF header_split(st.current_chunk, line, size)
         THEN [st EXCEPT !.chunks = Append(@, rstrip(st.current_chunk)),
                         !.current_chunk = line \o <<NL>>]
         ELSE [st EXCEPT !.current_chunk = @ \o line \o <<NL>>]

\* a line outside a code block
append_text_line(st, line, size) ==
    IF exceeds_limit(st.current_chunk, line, size)
    THEN [st EXCEPT !.chunks = flush(@, st.current_chunk),
                    !.current_chunk = line \o <<NL>>]
    ELSE IF header_split(st.current_chunk, line, size)
         THEN [st EXCEPT !.chunks = Append(@, rstrip(st.current_chunk)),
                         !.current_chunk = line \o <<NL>>]
         ELSE [st EXCEPT !.current_chunk = @ \o line \o <<NL>>]

\* one iteration of "for line in lines"
process_line(st, line, size) ==
    LET f == fence_update(st, line)
    IN  IF f.in_code_block THEN append_code_line(f, line, size)
        ELSE append_text_line(f, line, size)

RECURSIVE scan_lines(_, _, _)
scan_lines(st, lines, size) ==
    IF lines = <<>> THEN st
    ELSE scan_lines(process_line(st, Head(lines), size), Tail(lines), size)

\* the chunks of the line loop, the last chunk included
line_chunks(text, size) ==
    LET st0 == [chunks |-> <<>>, current_chunk |-> <<>>,
                in_code_block |-> FALSE, code_block_fence |-> <<>>]
        st  == scan_lines(st0, split_lines(text), size)
    IN  flush(st.chunks, st.current_chunk)

\* one iteration of "for paragraph in paragraphs"
paragraph_step(st, paragraph, size) ==
    IF Len(st.current_sub_chunk) + Len(paragraph) > size
    THEN LET saved == flush(st.sub_chunks, st.current_sub_chunk)
         IN  IF Len(paragraph) > size
             THEN [sub_chunks        |-> Append(saved, Prefix(paragraph, size)),
                   current_sub_chunk |-> IF Suffix(paragraph, size) # <<>>
                                         THEN Suffix(paragraph, size)
                                         ELSE st.current_sub_chunk]
             ELSE [sub_chunks |-> saved, current_sub_chunk |-> paragraph]
    ELSE [st EXCEPT !.current_sub_chunk = @ \o paragraph]

RECURSIVE scan_paragraphs(_, _, _)
scan_paragraphs(st, paragraphs, size) ==
    IF paragraphs = <<>> THEN st
    ELSE scan_paragraphs(paragraph_step(st, Head(paragraphs), size), Tail(paragraphs), size)

split_large_chunk(chunk, size) ==
    IF Len(chunk) <= size THEN <<chunk>>
    ELSE LET st  == scan_paragraphs([sub_chunks |-> <<>>, current_sub_chunk |-> <<>>],
                                    re_split(chunk), size)
             sub == flush(st.sub_chunks, st.current_sub_chunk)
         IN  IF sub # <<>> THEN sub ELSE <<chunk>>

RECURSIVE final_chunks(_, _)
final_chunks(chunk_list, size) ==
    IF chunk_list = <<>> THEN <<>>
    ELSE (IF Len(Head(chunk_list)) <= size THEN <<Head(chunk_list)>>
          ELSE split_large_chunk(Head(chunk_list), size))
         \o final_chunks(Tail(chunk_list), size)

split_markdown_content(text, size) == final_chunks(line_chunks(text, size), size)

----------------------------------------------------------------------------
(* Paths and ignore patterns.  A path or a pattern is a sequence of name   *)
(* tokens: "docs/a_zh.md" is <<"docs", "/", "a", "_zh", ".md">> and the    *)
(* pattern "*.py" is <<"*", ".py">>.                                       *)

SEP == "/"
STAR == "*"
DOT == "."

\* the index of the last separator of a path, 0 when it has none
LastSep(p) ==
    LET seps == {i \in 1..Len(p) : p[i] = SEP}
    IN  IF seps = {} THEN 0 ELSE CHOOSE i \in seps : \A j \in seps : j <= i

\* os.path.basename
basename(p) == SubSeq(p, LastSep(p) + 1, Len(p))

\* os.path.dirname
dirname(p) == SubSeq(p, 1, LastSep(p) - 1)

\* os.path.join
path_join(a, b) == IF a = <<>> THEN b ELSE a \o <<SEP>> \o b

\* the extension tokens a name can end with
Extensions == {".md", ".markdown", ".py"}

\* os.path.splitext(p)[0]
splitext_root(p) ==
    IF p # <<>> /\ p[Len(p)] \in Extensions /\ Len(basename(p)) > 1
    THEN SubSeq(p, 1, Len(p) - 1) ELSE p

\* file.lower().endswith(('.md', '.markdown'))
is_markdown(p) == p # <<>> /\ p[Len(p)] \in {".md", ".markdown"}

\* fnmatch.fnmatch(name, pattern): "*" matches any run of tokens, the
\* separator included
RECURSIVE fnmatch(_, _)
fnmatch(name, pattern) ==
    IF pattern = <<>> THEN name = <<>>
    ELSE IF Head(pattern) = STAR
         THEN fnmatch(name, Tail(pattern)) \/ (name # <<>> /\ fnmatch(Tail(name), pattern))
         ELSE name # <<>> /\ Head(name) = Head(pattern) /\ fnmatch(Tail(name), Tail(pattern))

\* pattern.endswith('/') or pattern.endswith('\\')
is_dir_pattern(pattern) == pattern # <<>> /\ pattern[Len(pattern)] = SEP

\* pattern.rstrip('/\\')
RECURSIVE rstrip_sep(_)
rstrip_sep(pattern) ==
    IF pattern # <<>> /\ pattern[Len(pattern)] = SEP
    THEN rstrip_sep(SubSeq(pattern, 1, Len(pattern) - 1)) ELSE pattern

\* default_ignores
default_ignores ==
    << <<".git">>, <<".venv">>, <<"__pycache__">>, <<STAR, ".py">>, <<STAR, ".pyc">>,
       <<STAR, ".pyo">>, <<STAR, ".pyd">> >>

\* the lines of an ignore file that are rules: not blank, not a comment
RECURSIVE read_ignore_file(_)
read_ignore_file(lines) ==
    IF lines = <<>> THEN <<>>
    ELSE (IF Head(lines) # <<>> /\ Head(Head(lines)) # HS THEN <<Head(lines)>> ELSE <<>>)
         \o read_ignore_file(Tail(lines))

\* a matcher that applies the patterns without a trailing separator to
\* directories too
_should_ignore_any(path, patterns, is_dir) ==
    \E i \in 1..Len(patterns) :
        LET pattern == patterns[i]
        IN  IF is_dir_pattern(pattern)
            THEN /\ is_dir
                 /\ \/ fnmatch(path, rstrip_sep(pattern))
                    \/ fnmatch(basename(path), rstrip_sep(pattern))
            ELSE \/ fnmatch(path, pattern)
                 \/ fnmatch(basename(path), pattern)

\* DocumentTranslator._should_ignore
_should_ignore(path, patterns, is_dir) ==
    \E i \in 1..Len(patterns) :
        LET pattern == patterns[i]
        IN  IF is_dir_pattern(pattern)
            THEN /\ is_dir
                 /\ \/ fnmatch(path, rstrip_sep(pattern))
                    \/ fnmatch(basename(path), rstrip_sep(pattern))
            ELSE /\ ~is_dir
                 /\ \/ fnmatch(path, pattern)
                    \/ fnmatch(basename(path), pattern)

\* the rule list _get_markdown_files works with: the caller's patterns, the
\* defaults, then the rules of .gitignore and of .aitdocsignore
extended_patterns(caller_patterns, gitignore_lines, aitdocsignore_lines) ==
    caller_patterns \o default_ignores \o read_ignore_file(gitignore_lines)
        \o read_ignore_file(aitdocsignore_lines)

\* "ignore_patterns = ignore_patterns or []" followed by extend and append:
\* a non-empty list of the caller is extended in place, None and the empty
\* list are replaced by a new list and the caller's object stays as it was
caller_list_after(caller_patterns, gitignore_lines, aitdocsignore_lines) ==
    IF caller_patterns = <<>> THEN <<>>
    ELSE extended_patterns(caller_patterns, gitignore_lines, aitdocsignore_lines)

\* the patterns the model draws from, in the order Python sorts their strings
PatternOrder ==
    << <<STAR, ".py">>, <<STAR, ".pyc">>, <<STAR, ".pyd">>, <<STAR, ".pyo">>, <<".git">>,
       <<".venv">>, <<"__pycache__">>, <<"a">>, <<"a", NL, "b">>, <<"a", ".md">>, <<"b">>,
       <<"docs", SEP>>, <<"sub", SEP>> >>

PatternRank(pattern) == CHOOSE i \in 1..Len(PatternOrder) : PatternOrder[i] = pattern

\* list.sort()
RECURSIVE insert_sorted(_, _)
insert_sorted(sorted, pattern) ==
    IF sorted = <<>> THEN <<pattern>>
    ELSE IF PatternRank(pattern) < PatternRank(Head(sorted))
         THEN <<pattern>> \o sorted
         ELSE <<Head(sorted)>> \o insert_sorted(Tail(sorted), pattern)

RECURSIVE sort_patterns(_)
sort_patterns(patterns) ==
    IF patterns = <<>> THEN <<>>
    ELSE insert_sorted(sort_patterns(SubSeq(patterns, 1, Len(patterns) - 1)),
                       patterns[Len(patterns)])

\* '\n'.join(all_ignore_patterns)
RECURSIVE join_patterns(_)
join_patterns(patterns) ==
    IF patterns = <<>> THEN <<>>
    ELSE IF Len(patterns) = 1 THEN patterns[1]
    ELSE patterns[1] \o <<NL>> \o join_patterns(Tail(patterns))

\* a fingerprint of the list in the order it was given
_calculate_ignore_hash_unsorted(patterns, gitignore_lines, aitdocsignore_lines) ==
    join_patterns(extended_patterns(patterns, gitignore_lines, aitdocsignore_lines))

\* DocumentTranslator._calculate_ignore_hash; the MD5 digest of the joined
\* sorted list is modelled by the joined text itself (no collisions)
_calculate_ignore_hash(patterns, gitignore_lines, aitdocsignore_lines) ==
    join_patterns(sort_patterns(extended_patterns(patterns, gitignore_lines,
                                                  aitdocsignore_lines)))

\* IgnorePatternManager._process_ignore_patterns: a new list of the caller's
\* patterns, the defaults and the lines of the two ignore files
_process_ignore_patterns(caller_patterns, gitignore_lines, aitdocsignore_lines) ==
    caller_patterns \o default_ignores \o read_ignore_file(gitignore_lines)
        \o read_ignore_file(aitdocsignore_lines)

\* IgnorePatternManager.get_ignore_hash of a manager made for the caller's
\* patterns; the digest is modelled as in _calculate_ignore_hash
get_ignore_hash(caller_patterns, gitignore_lines, aitdocsignore_lines) ==
    join_patterns(sort_patterns(_process_ignore_patterns(caller_patterns, gitignore_lines,
                                                         aitdocsignore_lines)))

----------------------------------------------------------------------------
(* The files of the processing root and the walk of _get_markdown_files    *)

MaxRuns == 2

\* the Markdown sources a user keeps under the processing root
SourceFiles == { <<"a", ".md">>, <<"docs", SEP, "a", ".md">> }

\* target_lang, as the suffix of an output name
LangSuffix == "_zh"

\* the output path of a source: f"{base_name}_{target_lang}.md"
output_path(file_path) == splitext_root(file_path) \o <<LangSuffix, ".md">>

\* every file a run can meet: the sources and the outputs of up to MaxRuns runs
RECURSIVE FilesAfter(_)
FilesAfter(n) ==
    IF n = 0 THEN SourceFiles
    ELSE FilesAfter(n - 1) \cup {output_path(f) : f \in FilesAfter(n - 1)}

FileUniverse == FilesAfter(MaxRuns)

\* the directories of the root that hold (directly or not) one of the files
RECURSIVE Ancestors(_)
Ancestors(p) == IF LastSep(p) = 0 THEN {<<>>} ELSE {dirname(p)} \cup Ancestors(dirname(p))

DirsOf(files) == UNION {Ancestors(f) : f \in files} \cup {<<>>}

\* os.path.relpath(root, directory_path)
relative_root(dir) == IF dir = <<>> THEN <<DOT>> ELSE dir

\* the loop that decides whether the directory os.walk is at is skipped
should_ignore_dir(dir, root_name, patterns) ==
    \E i \in 1..Len(patterns) :
        LET pattern == patterns[i]
        IN  IF is_dir_pattern(pattern)
            THEN \/ fnmatch(relative_root(dir), rstrip_sep(pattern))
                 \/ fnmatch(IF dir = <<>> THEN <<root_name>> ELSE basename(dir),
                            rstrip_sep(pattern))
            ELSE fnmatch(relative_root(dir), pattern)

\* os.walk reaches a directory when it reaches its parent and the parent
\* either is skipped (its "dirs" list is then left as it is) or keeps it in
\* "dirs"
RECURSIVE walk_reaches(_, _, _)
walk_reaches(dir, root_name, patterns) ==
    IF dir = <<>> THEN TRUE
    ELSE LET parent == dirname(dir)
         IN  /\ walk_reaches(parent, root_name, patterns)
             /\ \/ should_ignore_dir(parent, root_name, patterns)
                \/ ~_should_ignore(path_join(relative_root(parent), basename(dir)),
                                   patterns, TRUE)

\* DocumentTranslator._get_markdown_files, as the set of the paths it returns
_get_markdown_files(files, root_name, patterns) ==
    {f \in files :
        /\ walk_reaches(dirname(f), root_name, patterns)
        /\ ~should_ignore_dir(dirname(f), root_name, patterns)
        /\ is_markdown(f)
        /\ ~_should_ignore(f, patterns, FALSE)}

----------------------------------------------------------------------------
(* Git, the checkpoint file and change detection                           *)

MaxRev == 2
MaxContent == 2

\* The checkpoint file .aitdocs_state is a record: kind says what the file
\* holds ("absent": no file, "json": a JSON object, "malformed": text that is
\* not JSON, "undecodable": bytes that are not UTF-8), last_commit_hash is the
\* revision it names (0 for null or no such key), ignore_hash the fingerprint,
\* other the keys it has besides these two.

\* no checkpoint file
NoState == [kind |-> "absent", last_commit_hash |-> 0, ignore_hash |-> <<>>, other |-> {}]

\* a file json.load cannot parse: empty, or cut short
Malformed == [kind |-> "malformed", last_commit_hash |-> 0, ignore_hash |-> <<>>, other |-> {}]

\* a file open(..., encoding='utf-8') cannot decode
Undecodable == [kind |-> "undecodable", last_commit_hash |-> 0, ignore_hash |-> <<>>, other |-> {}]

\* what a read of the checkpoint file gives when the exception is not caught
Raised == [kind |-> "raised", last_commit_hash |-> 0, ignore_hash |-> <<>>, other |-> {}]

\* a revision name git does not know
UnknownRev == MaxRev + 1

\* DocumentTranslator._get_git_commit_hash: the revision HEAD names, 0 (None)
\* when there is no repository or no commit
_get_git_commit_hash(history) == Len(history)

\* DocumentTranslator._get_last_state: the parsed file, NoState for None;
\* only json.JSONDecodeError and KeyError are caught, so the UnicodeDecodeError
\* of an undecodable file leaves the method
_get_last_state(file) ==
    IF file.kind = "json" THEN file
    ELSE IF file.kind = "undecodable" THEN Raised
    ELSE NoState

\* the path git prints for a file of the processing root: relative to the
\* repository root
repo_path(prefix, f) == path_join(prefix, f)

\* git diff --name-only last_commit current_commit
git_diff(history, prefix, last_commit, cur_commit) ==
    {repo_path(prefix, f) : f \in {g \in DOMAIN history[cur_commit] :
                                      history[last_commit][g] # history[cur_commit][g]}}

\* the loop that keeps the Markdown files whose relative path git printed
changed_markdown_files(files, changed_files) == {f \in files : f \in changed_files}

\* change detection that never skips a file
_get_changed_files_with_ignores_all(files, history, prefix, file, ignore_hash, diff_ok) ==
    [files |-> files, branch |-> "no_state"]

\* change detection that compares the revisions before the fingerprints
_get_changed_files_with_ignores_commit_first(files, history, prefix, file, ignore_hash, diff_ok) ==
    LET cur_commit == _get_git_commit_hash(history)
        last_state == _get_last_state(file)
    IN  IF cur_commit = 0 THEN [files |-> files, branch |-> "no_git"]
        ELSE IF last_state.kind = "raised" THEN [files |-> {}, branch |-> "raised"]
        ELSE IF last_state.kind # "json" THEN [files |-> files, branch |-> "no_state"]
        ELSE IF cur_commit = last_state.last_commit_hash
             THEN [files |-> {}, branch |-> "same_commit"]
        ELSE IF ignore_hash # last_state.ignore_hash
             THEN [files |-> files, branch |-> "ignore_changed"]
        ELSE IF last_state.last_commit_hash = 0
             THEN [files |-> {}, branch |-> "raised"]
        ELSE IF diff_ok /\ last_state.last_commit_hash \in 1..Len(history)
             THEN [files  |-> changed_markdown_files(files,
                                 git_diff(history, prefix, last_state.last_commit_hash, cur_commit)),
                   branch |-> "diff"]
        ELSE [files |-> files, branch |-> "diff_failed"]

\* change detection that hands equal revisions to git diff
_get_changed_files_with_ignores_always_diff(files, history, prefix, file, ignore_hash, diff_ok) ==
    LET cur_commit == _get_git_commit_hash(history)
        last_state == _get_last_state(file)
    IN  IF cur_commit = 0 THEN [files |-> files, branch |-> "no_git"]
        ELSE IF last_state.kind = "raised" THEN [files |-> {}, branch |-> "raised"]
        ELSE IF last_state.kind # "json" THEN [files |-> files, branch |-> "no_state"]
        ELSE IF ignore_hash # last_state.ignore_hash
             THEN [files |-> files, branch |-> "ignore_changed"]
        ELSE IF last_state.last_commit_hash = 0
             THEN [files |-> {}, branch |-> "raised"]
        ELSE IF diff_ok /\ last_state.last_commit_hash \in 1..Len(history)
             THEN [files  |-> changed_markdown_files(files,
                                 git_diff(history, prefix, last_state.last_commit_hash, cur_commit)),
                   branch |-> "diff"]
        ELSE [files |-> files, branch |-> "diff_failed"]

\* DocumentTranslator._get_changed_files_with_ignores: the files it returns
\* and the return statement it leaves by; "raised" when an exception leaves
\* it: the read of an undecodable checkpoint file, or subprocess.run given
\* None for a revision the checkpoint does not name (TypeError, while only
\* CalledProcessError is caught)
_get_changed_files_with_ignores(files, history, prefix, file, ignore_hash, diff_ok) ==
    LET cur_commit == _get_git_commit_hash(history)
        last_state == _get_last_state(file)
    IN  IF cur_commit = 0 THEN [files |-> files, branch |-> "no_git"]
        ELSE IF last_state.kind = "raised" THEN [files |-> {}, branch |-> "raised"]
        ELSE IF last_state.kind # "json" THEN [files |-> files, branch |-> "no_state"]
        ELSE IF ignore_hash # last_state.ignore_hash
             THEN [files |-> files, branch |-> "ignore_changed"]
        ELSE IF cur_commit = last_state.last_commit_hash
             THEN [files |-> {}, branch |-> "same_commit"]
        ELSE IF last_state.last_commit_hash = 0
             THEN [files |-> {}, branch |-> "raised"]
        ELSE IF diff_ok /\ last_state.last_commit_hash \in 1..Len(history)
             THEN [files  |-> changed_markdown_files(files,
                                 git_diff(history, prefix, last_state.last_commit_hash, cur_commit)),
                   branch |-> "diff"]
        ELSE [files |-> files, branch |-> "diff_failed"]

\* a write that keeps none of the other keys
saved_state_fresh(state, commit_hash, ignore_hash) ==
    [kind |-> "json", last_commit_hash |-> commit_hash, ignore_hash |-> ignore_hash,
     other |-> {}]

\* the state written by DocumentTranslator._save_last_commit_hash: the parsed
\* existing file ({} when there is none or json.load fails) with the two keys
\* set
saved_state(state, commit_hash, ignore_hash) ==
    [kind |-> "json", last_commit_hash |-> commit_hash, ignore_hash |-> ignore_hash,
     other |-> IF state.kind = "json" THEN state.other ELSE {}]

----------------------------------------------------------------------------
(* The directory run as a state machine                                    *)

\* what the caller can pass as ignore_patterns (None and [] are <<>>)
CallerPatterns == { <<>>, << <<"a", ".md">> >> }

\* what the user can have in .gitignore and .aitdocsignore: nothing, or a
\* comment, a blank line and the rule "docs/" in .aitdocsignore
IgnoreFileSettings ==
    { [gitignore |-> <<>>, aitdocsignore |-> <<>>],
      [gitignore |-> <<>>, aitdocsignore |-> << <<HS, "docs">>, <<>>, <<"docs", SEP>> >>] }

\* the translation failures a behaviour can have
MaxFailures == 1

\* the name of the processing root directory
root_name == IF root_prefix = <<>> THEN "repo" ELSE root_prefix[Len(root_prefix)]

RunInitWith(file) ==
    /\ disk = [f \in FileUniverse |-> IF f \in SourceFiles THEN 1 ELSE 0]
    /\ commits \in {<<>>, <<[f \in FileUniverse |-> IF f \in SourceFiles THEN 1 ELSE 0]>>}
    /\ root_prefix \in {<<>>, <<"docs">>}
    /\ gitignore = <<>>
    /\ aitdocsignore = <<>>
    /\ state_file = file
    /\ pc = "idle"
    /\ incremental = FALSE
    /\ ignore_patterns = <<>>
    /\ markdown_files = {}
    /\ translated_files = <<>>
    /\ runs = 0
    /\ candidates = {}
    /\ selected = {}
    /\ branch = "off"
    /\ state_before = NoState
    /\ current_commit = 0
    /\ current_ignore_hash = <<>>
    /\ attempted = {}
    /\ write_failed = FALSE
    /\ failures = 0
    /\ failed = {}

\* the first run finds no checkpoint file
RunInit == RunInitWith(NoState)

\* checkpoint files that were not written by a run of this program: bytes that
\* are not UTF-8; an object that names no revision; an object that names a
\* revision git does not know and has a key of its own
ForeignStates ==
    { Undecodable,
      [kind |-> "json", last_commit_hash |-> 0,
       ignore_hash |-> _calculate_ignore_hash(<<>>, <<>>, <<>>), other |-> {}],
      [kind |-> "json", last_commit_hash |-> UnknownRev,
       ignore_hash |-> _calculate_ignore_hash(<<>>, <<>>, <<>>), other |-> {"note"}] }

\* the user writes a source file (creates it or changes its content)
EditFile(f) ==
    /\ pc # "translating"
    /\ runs < MaxRuns
    /\ disk[f] < MaxContent
    /\ disk' = [disk EXCEPT ![f] = @ + 1]
    /\ UNCHANGED <<commits, root_prefix, gitignore, aitdocsignore, state_file, pc, incremental,
                   ignore_patterns, markdown_files, translated_files, runs, candidates,
                   selected, branch, state_before, current_commit, current_ignore_hash,
                   attempted, write_failed, failures, failed>>

\* the user rewrites an ignore file
EditIgnoreFile ==
    /\ pc # "translating"
    /\ runs < MaxRuns
    /\ \E setting \in IgnoreFileSettings :
        /\ <<setting.gitignore, setting.aitdocsignore>> # <<gitignore, aitdocsignore>>
        /\ gitignore' = setting.gitignore
        /\ aitdocsignore' = setting.aitdocsignore
    /\ UNCHANGED <<disk, commits, root_prefix, state_file, pc, incremental,
                   ignore_patterns, markdown_files, translated_files, runs, candidates,
                   selected, branch, state_before, current_commit, current_ignore_hash,
                   attempted, write_failed, failures, failed>>

\* git add . && git commit: HEAD moves to a new revision holding the files on disk
Commit ==
    /\ pc = "translating" => markdown_files = {}
    /\ runs < MaxRuns
    /\ Len(commits) < MaxRev
    /\ IF commits = <<>> THEN TRUE ELSE commits[Len(commits)] # disk
    /\ commits' = Append(commits, disk)
    /\ UNCHANGED <<disk, root_prefix, gitignore, aitdocsignore, state_file, pc, incremental,
                   ignore_patterns, markdown_files, translated_files, runs, candidates,
                   selected, branch, state_before, current_commit, current_ignore_hash,
                   attempted, write_failed, failures, failed>>

\* translate_markdown_directory up to the for loop: enumeration and, in
\* incremental mode, change detection; an exception that leaves change
\* detection leaves translate_markdown_directory too and the run is over
StartRun(inc, caller_patterns, diff_ok) ==
    /\ pc # "translating"
    /\ runs < MaxRuns
    /\ LET files == _get_markdown_files({f \in FileUniverse : disk[f] # 0}, root_name,
                        extended_patterns(caller_patterns, gitignore, aitdocsignore))
           list  == caller_list_after(caller_patterns, gitignore, aitdocsignore)
           hash  == _calculate_ignore_hash(list, gitignore, aitdocsignore)
           found == IF inc
                    THEN _get_changed_files_with_ignores(files, commits, root_prefix,
                                                         state_file, hash, diff_ok)
                    ELSE [files |-> files, branch |-> "off"]
       IN  /\ ignore_patterns' = list
           /\ candidates' = files
           /\ selected' = found.files
           /\ markdown_files' = found.files
           /\ branch' = found.branch
           /\ current_commit' = IF inc THEN _get_git_commit_hash(commits) ELSE 0
           /\ current_ignore_hash' = IF inc THEN hash ELSE <<>>
           /\ pc' = IF found.branch = "raised" THEN "aborted" ELSE "translating"
           /\ runs' = IF found.branch = "raised" THEN runs + 1 ELSE runs
    /\ incremental' = inc
    /\ state_before' = state_file
    /\ translated_files' = <<>>
    /\ attempted' = {}
    /\ failed' = {}
    /\ write_failed' = FALSE
    /\ UNCHANGED <<disk, commits, root_prefix, gitignore, aitdocsignore, state_file, failures>>

\* the file the for loop takes next: the list is in the order os.walk lists
\* the files, one fixed order
next_file(files) == CHOOSE f \in files : \A g \in files : Len(f) <= Len(g)

\* an iteration whose exception ends the loop
TranslateFile_stop(ok) ==
    /\ pc = "translating"
    /\ markdown_files # {}
    /\ ok \/ failures < MaxFailures
    /\ LET f == next_file(markdown_files)
       IN  /\ attempted' = attempted \cup {f}
           /\ IF ok
              THEN /\ markdown_files' = markdown_files \ {f}
                   /\ disk' = [disk EXCEPT ![output_path(f)] = disk[f]]
                   /\ translated_files' = Append(translated_files, output_path(f))
                   /\ UNCHANGED <<failures, failed>>
              ELSE /\ markdown_files' = {}
                   /\ failures' = failures + 1
                   /\ failed' = failed \cup {f}
                   /\ UNCHANGED <<disk, translated_files>>
    /\ UNCHANGED <<commits, root_prefix, gitignore, aitdocsignore, state_file, pc, incremental,
                   ignore_patterns, runs, candidates, selected, branch, state_before,
                   current_commit, current_ignore_hash, write_failed>>

\* one iteration of the for loop: translate_markdown_file writes the output
\* and the output path is appended, or an exception is caught and printed
TranslateFile(ok) ==
    /\ pc = "translating"
    /\ markdown_files # {}
    /\ ok \/ failures < MaxFailures
    /\ LET f == next_file(markdown_files)
       IN  /\ markdown_files' = markdown_files \ {f}
           /\ attempted' = attempted \cup {f}
           /\ IF ok
              THEN /\ disk' = [disk EXCEPT ![output_path(f)] = disk[f]]
                   /\ translated_files' = Append(translated_files, output_path(f))
                   /\ UNCHANGED <<failures, failed>>
              ELSE /\ failures' = failures + 1
                   /\ failed' = failed \cup {f}
                   /\ UNCHANGED <<disk, translated_files>>
    /\ UNCHANGED <<commits, root_prefix, gitignore, aitdocsignore, state_file, pc, incremental,
                   ignore_patterns, runs, candidates, selected, branch, state_before,
                   current_commit, current_ignore_hash, write_failed>>

\* a save that writes nothing
_save_last_commit_hash_skip(file, history, list, gitignore_lines, aitdocsignore_lines, write_ok) ==
    file

\* DocumentTranslator._save_last_commit_hash: the checkpoint file after the call
_save_last_commit_hash(file, history, list, gitignore_lines, aitdocsignore_lines, write_ok) ==
    LET commit_hash == _get_git_commit_hash(history)
        ignore_hash == _calculate_ignore_hash(list, gitignore_lines, aitdocsignore_lines)
    IN  IF commit_hash # 0 /\ write_ok THEN saved_state(file, commit_hash, ignore_hash)
        ELSE file

\* an end of the run where the error of the checkpoint write leaves
\* translate_markdown_directory
FinishRun_raise(write_ok) ==
    /\ pc = "translating"
    /\ markdown_files = {}
    /\ state_file' = IF incremental
                     THEN _save_last_commit_hash(state_file, commits, ignore_patterns,
                                                 gitignore, aitdocsignore, write_ok)
                     ELSE state_file
    /\ write_failed' = (incremental /\ _get_git_commit_hash(commits) # 0 /\ ~write_ok)
    /\ pc' = IF write_failed' THEN "aborted" ELSE "done"
    /\ runs' = runs + 1
    /\ UNCHANGED <<disk, commits, root_prefix, gitignore, aitdocsignore, incremental,
                   ignore_patterns, markdown_files, translated_files, candidates, selected,
                   branch, state_before, current_commit, current_ignore_hash, attempted,
                   failures, failed>>

\* an end of the run that saves the checkpoint in every mode
FinishRun_save_always(write_ok) ==
    /\ pc = "translating"
    /\ markdown_files = {}
    /\ state_file' = _save_last_commit_hash(state_file, commits, ignore_patterns,
                                            gitignore, aitdocsignore, write_ok)
    /\ write_failed' = (incremental /\ _get_git_commit_hash(commits) # 0 /\ ~write_ok)
    /\ pc' = "done"
    /\ runs' = runs + 1
    /\ UNCHANGED <<disk, commits, root_prefix, gitignore, aitdocsignore, incremental,
                   ignore_patterns, markdown_files, translated_files, candidates, selected,
                   branch, state_before, current_commit, current_ignore_hash, attempted,
                   failures, failed>>

\* the end of translate_markdown_directory: in incremental mode the checkpoint
\* is saved, then the list of translated files is returned
FinishRun(write_ok) ==
    /\ pc = "translating"
    /\ markdown_files = {}
    /\ state_file' = IF incremental
                     THEN _save_last_commit_hash(state_file, commits, ignore_patterns,
                                                 gitignore, aitdocsignore, write_ok)
                     ELSE state_file
    /\ write_failed' = (incremental /\ _get_git_commit_hash(commits) # 0 /\ ~write_ok)
    /\ pc' = "done"
    /\ runs' = runs + 1
    /\ UNCHANGED <<disk, commits, root_prefix, gitignore, aitdocsignore, incremental,
                   ignore_patterns, markdown_files, translated_files, candidates, selected,
                   branch, state_before, current_commit, current_ignore_hash, attempted,
                   failures, failed>>

\* the process is killed inside the write of the checkpoint: open(state_file,
\* 'w') has emptied the file and json.dump has written nothing or a part of
\* the text, or all of it
CrashInWrite ==
    /\ pc = "translating"
    /\ markdown_files = {}
    /\ incremental
    /\ _get_git_commit_hash(commits) # 0
    /\ state_file' \in { Malformed,
                         _save_last_commit_hash(state_file, commits, ignore_patterns,
                                                gitignore, aitdocsignore, TRUE) }
    /\ pc' = "crashed"
    /\ runs' = runs + 1
    /\ UNCHANGED <<disk, commits, root_prefix, gitignore, aitdocsignore, incremental,
                   ignore_patterns, markdown_files, translated_files, candidates, selected,
                   branch, state_before, current_commit, current_ignore_hash, attempted,
                   write_failed, failures, failed>>

\* a path where there is no file
NoFile == <<"no file">>

\* no call of translate_markdown_file is under way
JobIdle ==
    /\ translated_chunks = <<>>
    /\ output_file = NoFile
    /\ job = "idle"

\* the contents a file or a cache key can have
Contents == 1..MaxContent

\* what a get returns for a miss
None == <<"None">>

\* nothing can be said of what a get returns
Unknown == <<"unknown">>

\* the cache directory is empty and the cache manager has not been called
CacheEmpty ==
    /\ cache_files = [x \in Contents |-> NoFile]
    /\ expect = [x \in Contents |-> None]
    /\ got = [op |-> "none", content |-> 0, result |-> None, error |-> "none",
              replaced |-> FALSE]

\* no fingerprint was computed and _should_ignore was not called
IgnoreIdle ==
    /\ caller_list = <<>>
    /\ reordered = <<>>
    /\ changed = <<>>
    /\ fingerprints = [list |-> <<>>, reordered |-> <<>>, changed |-> <<>>]
    /\ query = [path |-> <<>>, is_dir |-> FALSE, result |-> FALSE]
    /\ ipc = "input"

\* _get_markdown_files was not called on a directory of its own
WalkIdle ==
    /\ tree = {}
    /\ walk_patterns = <<>>
    /\ visited = {}
    /\ listed = {}
    /\ wpc = "input"

\* no call of translate_markdown_file is awaited
LoopIdle == in_flight = {}

\* backup_suffix of BuildManager
BackupSuffix == ".aitdocs.bak"

\* the Markdown files a documentation directory can hold: sources, with
\* either extension, and translations of translate_markdown_directory
BuildFiles ==
    { <<"a", ".md">>, <<"a", ".markdown">>, <<"b", ".md">>,
      <<"a", LangSuffix, ".md">>, <<"a", LangSuffix, LangSuffix, ".md">> }

\* backup_file = f"{source_file}{self.backup_suffix}"
backup_file(source_file) == source_file \o <<BackupSuffix>>

\* every path of the directory
BuildPaths == BuildFiles \cup {backup_file(f) : f \in BuildFiles}

\* BuildManager was not used
BuildIdle ==
    /\ build_files = [f \in BuildPaths |-> NoFile]
    /\ build_original = [f \in BuildPaths |-> NoFile]
    /\ prepares = 0
    /\ bpc = "input"

\* the line loop before its first line
ScanIdle ==
    /\ scan = [chunks |-> <<>>, current_chunk |-> <<>>, in_code_block |-> FALSE,
               code_block_fence |-> <<>>]
    /\ line_no = 0

\* main was not called
MainIdle ==
    /\ args = [mode |-> "text", operand |-> <<>>, exists |-> FALSE, output |-> FALSE,
               incremental |-> FALSE, auto_commit |-> FALSE, files |-> 0]
    /\ service = TRUE
    /\ exit_code = 0
    /\ requests = 0
    /\ outputs = 0
    /\ mpc = "input"

Init ==
    /\ RunInit
    /\ JobIdle
    /\ CacheEmpty
    /\ IgnoreIdle
    /\ WalkIdle
    /\ LoopIdle
    /\ MainIdle
    /\ BuildIdle
    /\ ScanIdle
    /\ content = <<>>
    /\ chunk_size = 1
    /\ chunks = <<>>
    /\ spc = "input"

\* a repository with a commit, processed at its root, where the first run
\* finds a checkpoint file it did not write
ForeignInit ==
    /\ IgnoreIdle
    /\ WalkIdle
    /\ LoopIdle
    /\ MainIdle
    /\ BuildIdle
    /\ ScanIdle
    /\ \E file \in ForeignStates : RunInitWith(file)
    /\ commits # <<>>
    /\ root_prefix = <<>>
    /\ JobIdle
    /\ CacheEmpty
    /\ content = <<>>
    /\ chunk_size = 1
    /\ chunks = <<>>
    /\ spc = "input"

Next ==
    \/ \E f \in SourceFiles : EditFile(f) /\ UNCHANGED <<svars, jvars, cvars, nvars>>
    \/ EditIgnoreFile /\ UNCHANGED <<svars, jvars, cvars, nvars>>
    \/ Commit /\ UNCHANGED <<svars, jvars, cvars, nvars>>
    \/ \E inc \in BOOLEAN, p \in CallerPatterns, d \in BOOLEAN :
          StartRun(inc, p, d) /\ UNCHANGED <<svars, jvars, cvars, nvars>>
    \/ \E ok \in BOOLEAN : TranslateFile(ok) /\ UNCHANGED <<svars, jvars, cvars, nvars>>
    \/ \E w \in BOOLEAN : FinishRun(w) /\ UNCHANGED <<svars, jvars, cvars, nvars>>
    \/ CrashInWrite /\ UNCHANGED <<svars, jvars, cvars, nvars>>

Spec == Init /\ [][Next]_vars

SpecForeign == ForeignInit /\ [][Next]_vars

----------------------------------------------------------------------------
(* The splitter as a state machine: a document and a limit are chosen,     *)
(* then the splitter is called once.                                       *)

MaxLines == 3
MaxLimit == 9

\* the lines documents are built from
LineSet ==
    { <<>>, <<"a">>, <<"a", "a", "a">>, <<SP>>, <<"a", SP>>, <<HS>>,
      <<BT, BT, BT>>, <<TL, TL, TL>> }

RECURSIVE LineSeqs(_)
LineSeqs(n) ==
    IF n = 0 THEN {<<>>}
    ELSE LET shorter == LineSeqs(n - 1)
         IN  shorter \cup {Append(ls, l) : ls \in {x \in shorter : Len(x) = n - 1}, l \in LineSet}

Documents == {join_lines(ls) : ls \in LineSeqs(MaxLines) \ {<<>>}}

SplitInit ==
    /\ IgnoreIdle
    /\ WalkIdle
    /\ LoopIdle
    /\ MainIdle
    /\ BuildIdle
    /\ ScanIdle
    /\ content \in Documents
    /\ chunk_size \in 1..MaxLimit
    /\ chunks = <<>>
    /\ spc = "input"
    /\ RunInit
    /\ root_prefix = <<>>
    /\ commits = <<>>
    /\ JobIdle
    /\ CacheEmpty

Split ==
    /\ spc = "input"
    /\ chunks' = split_markdown_content(content, chunk_size)
    /\ spc' = "done"
    /\ UNCHANGED <<content, chunk_size>>
    /\ UNCHANGED <<rvars, jvars, cvars, nvars>>

SplitNext == Split

SpecSplit == SplitInit /\ [][SplitNext]_vars

----------------------------------------------------------------------------
(* translate_markdown_file as a state machine: the file is read and split, *)
(* its chunks are translated one after the other, then the output is       *)
(* written.                                                                *)

MaxFileLines == 2

\* the files translate_markdown_file is called for
FileDocuments == {join_lines(ls) : ls \in LineSeqs(MaxFileLines) \ {<<>>}}

\* the text an earlier call left at the output path
OldOutput == <<"o", "l", "d">>

\* Translator.async_translate_text: the answer of the model for a text
async_translate_text(text) == <<"T">> \o text

\* "\n\n".join(translated_chunks)
RECURSIVE join_chunks(_)
join_chunks(list) ==
    IF list = <<>> THEN <<>>
    ELSE IF Len(list) = 1 THEN list[1]
    ELSE list[1] \o <<NL, NL>> \o join_chunks(Tail(list))

FileInit ==
    /\ IgnoreIdle
    /\ WalkIdle
    /\ LoopIdle
    /\ MainIdle
    /\ BuildIdle
    /\ ScanIdle
    /\ content \in FileDocuments
    /\ chunk_size \in 1..MaxLimit
    /\ chunks = <<>>
    /\ spc = "input"
    /\ translated_chunks = <<>>
    /\ output_file \in {NoFile, OldOutput}
    /\ job = "idle"
    /\ RunInit
    /\ root_prefix = <<>>
    /\ commits = <<>>
    /\ CacheEmpty

\* translate_markdown_file reads the file and translate_markdown_content
\* splits it
StartJob ==
    /\ job = "idle"
    /\ chunks' = split_markdown_content(content, chunk_size)
    /\ spc' = "done"
    /\ job' = "translating"
    /\ UNCHANGED <<content, chunk_size, translated_chunks, output_file, rvars, cvars, nvars>>

\* an iteration that writes what is translated so far to the output path
TranslateChunk_streaming(ok) ==
    /\ job = "translating"
    /\ Len(translated_chunks) < Len(chunks)
    /\ IF ok
       THEN /\ translated_chunks' =
                  Append(translated_chunks,
                         async_translate_text(chunks[Len(translated_chunks) + 1]))
            /\ output_file' = join_chunks(translated_chunks')
            /\ job' = job
       ELSE /\ job' = "failed"
            /\ UNCHANGED <<translated_chunks, output_file>>
    /\ UNCHANGED <<svars, rvars, cvars, nvars>>

\* an iteration that takes the chunks from the last to the first
TranslateChunk_backwards(ok) ==
    /\ job = "translating"
    /\ Len(translated_chunks) < Len(chunks)
    /\ IF ok
       THEN /\ translated_chunks' =
                  Append(translated_chunks,
                         async_translate_text(chunks[Len(chunks) - Len(translated_chunks)]))
            /\ job' = job
       ELSE /\ job' = "failed"
            /\ UNCHANGED translated_chunks
    /\ UNCHANGED <<output_file, svars, rvars, cvars, nvars>>

\* one iteration of the loop of translate_markdown_content: the next chunk is
\* sent to the model and the answer is appended, or the call raises and the
\* exception leaves translate_markdown_file
TranslateChunk(ok) ==
    /\ job = "translating"
    /\ Len(translated_chunks) < Len(chunks)
    /\ IF ok
       THEN /\ translated_chunks' =
                  Append(translated_chunks,
                         async_translate_text(chunks[Len(translated_chunks) + 1]))
            /\ job' = job
       ELSE /\ job' = "failed"
            /\ UNCHANGED translated_chunks
    /\ UNCHANGED <<output_file, svars, rvars, cvars, nvars>>

\* after the loop the chunks are joined and translate_markdown_file writes
\* the text to the output path
WriteOutput ==
    /\ job = "translating"
    /\ Len(translated_chunks) = Len(chunks)
    /\ output_file' = join_chunks(translated_chunks)
    /\ job' = "written"
    /\ UNCHANGED <<translated_chunks, svars, rvars, cvars, nvars>>

\* the task is cancelled or the process is interrupted while it waits for the
\* model
Interrupt ==
    /\ job = "translating"
    /\ Len(translated_chunks) < Len(chunks)
    /\ job' = "interrupted"
    /\ UNCHANGED <<translated_chunks, output_file, svars, rvars, cvars, nvars>>

FileNext ==
    \/ StartJob
    \/ \E ok \in BOOLEAN : TranslateChunk(ok)
    \/ WriteOutput
    \/ Interrupt

SpecFile == FileInit /\ [][FileNext]_vars

----------------------------------------------------------------------------
(* CacheManager: a directory with one file per content, named by the MD5   *)
(* digest of the content.  Distinct contents of the model have distinct    *)
(* digests, so cache_files is indexed by the content.                      *)

CR == "\r"

\* the texts a translation can be
Translations == { <<"y">>, <<>>, <<"z", NL, "z">>, <<"z", CR, NL, "z">> }

\* f.read() of a file opened in text mode with the default newline=None:
\* "\r\n" and "\r" are given back as "\n"
RECURSIVE read_text(_)
read_text(text) ==
    IF text = <<>> THEN <<>>
    ELSE IF Head(text) = CR
         THEN IF Len(text) > 1 /\ text[2] = NL
              THEN <<NL>> \o read_text(SubSeq(text, 3, Len(text)))
              ELSE <<NL>> \o read_text(Tail(text))
         ELSE <<Head(text)>> \o read_text(Tail(text))

\* a get whose read error is not caught
get_from_cache_raise(files, x, read_ok) ==
    IF files[x] = NoFile THEN [result |-> None, error |-> "none"]
    ELSE IF read_ok THEN [result |-> read_text(files[x]), error |-> "none"]
    ELSE [result |-> None, error |-> "raised"]

\* CacheManager.get_from_cache: what it returns, and whether an exception was
\* caught and printed ("logged") or left the method ("raised")
get_from_cache(files, x, read_ok) ==
    IF files[x] = NoFile THEN [result |-> None, error |-> "none"]
    ELSE IF read_ok THEN [result |-> read_text(files[x]), error |-> "none"]
    ELSE [result |-> None, error |-> "logged"]

\* CacheManager.save_to_cache: the cache directory after the call; the write
\* succeeds ("ok"), open raises ("denied"), or f.write raises after open has
\* emptied the file ("torn"); on POSIX the text is written as it is
save_to_cache(files, x, y, outcome) ==
    IF outcome = "ok" THEN [files EXCEPT ![x] = y]
    ELSE IF outcome = "torn" THEN [files EXCEPT ![x] = <<>>]
    ELSE files

CacheInit ==
    /\ IgnoreIdle
    /\ WalkIdle
    /\ LoopIdle
    /\ MainIdle
    /\ BuildIdle
    /\ ScanIdle
    /\ CacheEmpty
    /\ RunInit
    /\ root_prefix = <<>>
    /\ commits = <<>>
    /\ JobIdle
    /\ content = <<>>
    /\ chunk_size = 1
    /\ chunks = <<>>
    /\ spc = "input"

\* a call of get_from_cache
Get(x, read_ok) ==
    /\ LET r == get_from_cache(cache_files, x, read_ok)
       IN  got' = [op |-> "get", content |-> x, result |-> r.result, error |-> r.error,
                   replaced |-> FALSE]
    /\ UNCHANGED <<cache_files, expect, svars, rvars, jvars, nvars>>

\* a call of save_to_cache: every exception is caught and printed
Put(x, y, outcome) ==
    /\ cache_files' = save_to_cache(cache_files, x, y, outcome)
    /\ expect' = IF outcome = "ok" THEN [expect EXCEPT ![x] = y]
                 ELSE IF outcome = "torn" THEN [expect EXCEPT ![x] = Unknown]
                 ELSE expect
    /\ got' = [op |-> "put", content |-> x, result |-> None,
               error |-> IF outcome = "ok" THEN "none" ELSE "logged",
               replaced |-> cache_files[x] # NoFile]
    /\ UNCHANGED <<svars, rvars, jvars, nvars>>

CacheNext ==
    \/ \E x \in Contents, read_ok \in BOOLEAN : Get(x, read_ok)
    \/ \E x \in Contents, y \in Translations, outcome \in {"ok", "denied", "torn"} :
          Put(x, y, outcome)

SpecCache == CacheInit /\ [][CacheNext]_vars

----------------------------------------------------------------------------
(* The ignore rules as a state machine: a caller's list is chosen together *)
(* with a reordering and a one-step change of it; the fingerprints of the  *)
(* three are computed, and _should_ignore is asked about paths under the   *)
(* rules the list gives.                                                   *)

\* the patterns a caller can pass
RulePatterns == { <<"a">>, <<"a", NL, "b">>, <<"a", ".md">>, <<"b">>, <<"docs", SEP>> }

\* the longest list a caller passes
MaxRules == 2

RECURSIVE RuleLists(_)
RuleLists(n) ==
    IF n = 0 THEN {<<>>}
    ELSE LET shorter == RuleLists(n - 1)
         IN  shorter \cup {Append(l, r) : l \in {x \in shorter : Len(x) = n - 1},
                                          r \in RulePatterns}

\* list without its i-th pattern
remove_at(list, i) == SubSeq(list, 1, i - 1) \o SubSeq(list, i + 1, Len(list))

\* list with r put before its i-th pattern (at the end for i = Len(list) + 1)
insert_at(list, i, r) == SubSeq(list, 1, i - 1) \o <<r>> \o SubSeq(list, i, Len(list))

\* the orderings of a list
RECURSIVE Orderings(_)
Orderings(list) ==
    IF list = <<>> THEN {<<>>}
    ELSE UNION {{<<list[i]>> \o rest : rest \in Orderings(remove_at(list, i))} :
                   i \in 1..Len(list)}

\* the lists one pattern added, removed or edited away from a list
OneStepChanges(list) ==
    {insert_at(list, i, r) : i \in 1..(Len(list) + 1), r \in RulePatterns}
        \cup {remove_at(list, i) : i \in 1..Len(list)}
        \cup UNION {{[list EXCEPT ![i] = r] : r \in RulePatterns \ {list[i]}} :
                       i \in 1..Len(list)}

\* the paths _should_ignore is asked about
QueryPaths ==
    { <<".git">>, <<"sub", SEP, ".git">>, <<"docs">>, <<"sub", SEP, "docs">>, <<"a", ".md">>,
      <<"docs", SEP, "a", ".md">>, <<"b", ".md">> }

IgnoreInit ==
    /\ caller_list \in RuleLists(MaxRules)
    /\ reordered \in Orderings(caller_list)
    /\ changed \in OneStepChanges(caller_list)
    /\ fingerprints = [list |-> <<>>, reordered |-> <<>>, changed |-> <<>>]
    /\ query = [path |-> <<>>, is_dir |-> FALSE, result |-> FALSE]
    /\ ipc = "input"
    /\ WalkIdle
    /\ LoopIdle
    /\ MainIdle
    /\ BuildIdle
    /\ ScanIdle
    /\ RunInit
    /\ root_prefix = <<>>
    /\ commits = <<>>
    /\ JobIdle
    /\ CacheEmpty
    /\ content = <<>>
    /\ chunk_size = 1
    /\ chunks = <<>>
    /\ spc = "input"

\* _calculate_ignore_hash is called for each of the three lists, in a
\* directory without ignore files
Fingerprint ==
    /\ ipc = "input"
    /\ fingerprints' = [list      |-> _calculate_ignore_hash(caller_list, <<>>, <<>>),
                        reordered |-> _calculate_ignore_hash(reordered, <<>>, <<>>),
                        changed   |-> _calculate_ignore_hash(changed, <<>>, <<>>)]
    /\ ipc' = "hashed"
    /\ UNCHANGED <<caller_list, reordered, changed, query>>
    /\ UNCHANGED <<svars, rvars, jvars, cvars, wvars, lvars, mvars, bvars, hvars>>

\* _should_ignore is called with the rules _get_markdown_files makes of the
\* caller's list
ShouldIgnore(path, is_dir) ==
    /\ ipc \in {"hashed", "asked"}
    /\ query' = [path |-> path, is_dir |-> is_dir,
                 result |-> _should_ignore(path, extended_patterns(caller_list, <<>>, <<>>),
                                           is_dir)]
    /\ ipc' = "asked"
    /\ UNCHANGED <<caller_list, reordered, changed, fingerprints>>
    /\ UNCHANGED <<svars, rvars, jvars, cvars, wvars, lvars, mvars, bvars, hvars>>

IgnoreNext ==
    \/ Fingerprint
    \/ \E path \in QueryPaths, is_dir \in BOOLEAN : ShouldIgnore(path, is_dir)

SpecIgnore == IgnoreInit /\ [][IgnoreNext]_vars

----------------------------------------------------------------------------
(* The enumeration as a state machine: a directory tree and a caller's     *)
(* list are chosen, then _get_markdown_files is called once.               *)

\* the Markdown files the tree can hold
TreeFiles ==
    { <<"a", ".md">>, <<"a", ".markdown">>, <<"docs", SEP, "a", ".md">>,
      <<".venv", SEP, "a", ".md">>,
      <<".venv", SEP, "lib", SEP, "a", ".md">>, <<"sub", SEP, ".venv", SEP, "a", ".md">>,
      <<"sub", SEP, "docs", SEP, "a", ".md">> }

\* the lists the caller of the enumeration can pass
WalkPatterns == { <<>>, << <<"docs", SEP>> >>, << <<"sub", SEP>> >> }

WalkInit ==
    /\ tree \in SUBSET TreeFiles
    /\ walk_patterns \in WalkPatterns
    /\ visited = {}
    /\ listed = {}
    /\ wpc = "input"
    /\ IgnoreIdle
    /\ LoopIdle
    /\ MainIdle
    /\ BuildIdle
    /\ ScanIdle
    /\ RunInit
    /\ root_prefix = <<>>
    /\ commits = <<>>
    /\ JobIdle
    /\ CacheEmpty
    /\ content = <<>>
    /\ chunk_size = 1
    /\ chunks = <<>>
    /\ spc = "input"

\* the directories os.walk yields in _get_markdown_files
walked(files, name, patterns) == {d \in DirsOf(files) : walk_reaches(d, name, patterns)}

\* _get_markdown_files is called in a directory without ignore files
Walk ==
    /\ wpc = "input"
    /\ LET patterns == extended_patterns(walk_patterns, <<>>, <<>>)
       IN  /\ visited' = walked(tree, root_name, patterns)
           /\ listed' = _get_markdown_files(tree, root_name, patterns)
    /\ wpc' = "done"
    /\ UNCHANGED <<tree, walk_patterns>>
    /\ UNCHANGED <<svars, rvars, jvars, cvars, ivars, lvars, mvars, bvars, hvars>>

WalkNext == Walk

SpecWalk == WalkInit /\ [][WalkNext]_vars

----------------------------------------------------------------------------
(* The for loop of translate_markdown_directory with the call and the      *)
(* return of translate_markdown_file as two steps.                         *)

LoopInit ==
    /\ RunInit
    /\ in_flight = {}
    /\ IgnoreIdle
    /\ WalkIdle
    /\ MainIdle
    /\ BuildIdle
    /\ ScanIdle
    /\ JobIdle
    /\ CacheEmpty
    /\ content = <<>>
    /\ chunk_size = 1
    /\ chunks = <<>>
    /\ spc = "input"

\* a loop that starts the call for the next file without waiting for the
\* calls it has started
BeginFile_gather ==
    /\ pc = "translating"
    /\ markdown_files # {}
    /\ LET f == next_file(markdown_files)
       IN  /\ in_flight' = in_flight \cup {f}
           /\ markdown_files' = markdown_files \ {f}
           /\ attempted' = attempted \cup {f}
    /\ UNCHANGED <<disk, commits, root_prefix, gitignore, aitdocsignore, state_file, pc,
                   incremental, ignore_patterns, translated_files, runs, candidates, selected,
                   branch, state_before, current_commit, current_ignore_hash, write_failed,
                   failures, failed>>

\* the for loop takes the next file and calls translate_markdown_file; the
\* await keeps the loop from going on before the call has returned or raised
BeginFile ==
    /\ pc = "translating"
    /\ markdown_files # {}
    /\ in_flight = {}
    /\ LET f == next_file(markdown_files)
       IN  /\ in_flight' = in_flight \cup {f}
           /\ markdown_files' = markdown_files \ {f}
           /\ attempted' = attempted \cup {f}
    /\ UNCHANGED <<disk, commits, root_prefix, gitignore, aitdocsignore, state_file, pc,
                   incremental, ignore_patterns, translated_files, runs, candidates, selected,
                   branch, state_before, current_commit, current_ignore_hash, write_failed,
                   failures, failed>>

\* a call of translate_markdown_file returns, and the output path is
\* appended, or raises, and the exception is caught and printed
EndFile(ok) ==
    /\ pc = "translating"
    /\ ok \/ failures < MaxFailures
    /\ \E f \in in_flight :
        /\ in_flight' = in_flight \ {f}
        /\ IF ok
           THEN /\ disk' = [disk EXCEPT ![output_path(f)] = disk[f]]
                /\ translated_files' = Append(translated_files, output_path(f))
                /\ UNCHANGED <<failures, failed>>
           ELSE /\ failures' = failures + 1
                /\ failed' = failed \cup {f}
                /\ UNCHANGED <<disk, translated_files>>
    /\ UNCHANGED <<commits, root_prefix, gitignore, aitdocsignore, state_file, pc, incremental,
                   ignore_patterns, markdown_files, runs, candidates, selected, branch,
                   state_before, current_commit, current_ignore_hash, attempted, write_failed>>

LoopNext ==
    \/ \E inc \in BOOLEAN, p \in CallerPatterns, d \in BOOLEAN :
          StartRun(inc, p, d) /\ UNCHANGED <<svars, jvars, cvars, nvars>>
    \/ BeginFile /\ UNCHANGED <<svars, jvars, cvars, ivars, wvars, mvars, bvars, hvars>>
    \/ \E ok \in BOOLEAN : EndFile(ok) /\ UNCHANGED <<svars, jvars, cvars, ivars, wvars, mvars, bvars, hvars>>
    \/ \E w \in BOOLEAN :
          in_flight = {} /\ FinishRun(w) /\ UNCHANGED <<svars, jvars, cvars, nvars>>

SpecLoop == LoopInit /\ [][LoopNext]_vars

----------------------------------------------------------------------------
(* The command line entry point main as a state machine: a command line    *)
(* is chosen, then main is called once.                                    *)

\* the Markdown files a directory given to main holds at most
MaxMainFiles == 2

\* the command lines: mode is the option of the operation group that was
\* given (-t, -f or -d), operand its value (<<>> for the empty string), exists
\* whether the operand names a file or directory, output whether -o was
\* given, files the number of Markdown files of the directory
CommandLines ==
    {a \in [mode : {"text", "file", "directory"}, operand : {<<>>, <<"x">>},
            exists : BOOLEAN, output : BOOLEAN, incremental : BOOLEAN,
            auto_commit : BOOLEAN, files : 0..MaxMainFiles] :
        /\ a.exists => a.mode # "text" /\ a.operand # <<>>
        /\ a.files # 0 => a.mode = "directory" /\ a.exists
        /\ (a.incremental \/ a.auto_commit) => a.mode = "directory"}

MainInit ==
    /\ args \in CommandLines
    /\ service \in BOOLEAN
    /\ exit_code = 0
    /\ requests = 0
    /\ outputs = 0
    /\ mpc = "input"
    /\ IgnoreIdle
    /\ WalkIdle
    /\ LoopIdle
    /\ BuildIdle
    /\ ScanIdle
    /\ RunInit
    /\ root_prefix = <<>>
    /\ commits = <<>>
    /\ JobIdle
    /\ CacheEmpty
    /\ content = <<>>
    /\ chunk_size = 1
    /\ chunks = <<>>
    /\ spc = "input"

\* the positional arguments translate_directory passes to
\* translate_markdown_directory
translate_directory_arguments ==
    <<"directory_path", "source_lang", "target_lang", "ignore_patterns", "output_directory",
      "incremental", "auto_commit", "commit_message", "auto_push">>

\* the parameters of DocumentTranslator.translate_markdown_directory after self
translate_markdown_directory_parameters ==
    <<"directory_path", "source_lang", "target_lang", "ignore_patterns", "output_directory",
      "incremental">>

\* a call with more positional arguments than parameters raises TypeError
raises_TypeError(parameters, arguments) == Len(arguments) > Len(parameters)

\* translate_text_content: one request; an error of the service leaves it
translate_text_content(ok) ==
    [raised |-> ~ok, requests |-> 1, outputs |-> 0]

\* translate_document: the file is one chunk, one request; the output is
\* written when the request was answered
translate_document(ok) ==
    [raised |-> ~ok, requests |-> 1, outputs |-> IF ok THEN 1 ELSE 0]

\* translate_directory: the call of translate_markdown_directory raises
\* before the method is entered; a call the method accepts makes one request per
\* file and returns the list of the outputs, the errors of the files caught
translate_directory(files, ok) ==
    IF raises_TypeError(translate_markdown_directory_parameters, translate_directory_arguments)
    THEN [raised |-> TRUE, requests |-> 0, outputs |-> 0]
    ELSE [raised |-> FALSE, requests |-> files, outputs |-> IF ok THEN files ELSE 0]

\* main: what the operation did and the code main returns; an option given
\* with the empty string is skipped by "if args.text: ... elif args.file: ..."
main(a, ok) ==
    LET nothing == [raised |-> FALSE, requests |-> 0, outputs |-> 0]
        done == IF a.operand = <<>> THEN nothing
                ELSE IF a.mode = "text" THEN translate_text_content(ok)
                ELSE IF ~a.exists THEN nothing
                ELSE IF a.mode = "file" THEN translate_document(ok)
                ELSE translate_directory(a.files, ok)
    IN  [exit_code |-> IF a.operand = <<>> THEN 0
                       ELSE IF a.mode # "text" /\ ~a.exists THEN 1
                       ELSE IF done.raised THEN 1
                       ELSE 0,
         requests  |-> done.requests,
         outputs   |-> done.outputs]

\* main is called and returns
Main ==
    /\ mpc = "input"
    /\ LET r == main(args, service)
       IN  /\ exit_code' = r.exit_code
           /\ requests' = r.requests
           /\ outputs' = r.outputs
    /\ mpc' = "done"
    /\ UNCHANGED <<args, service>>
    /\ UNCHANGED <<svars, rvars, jvars, cvars, ivars, wvars, lvars, bvars, hvars>>

MainNext == Main

SpecMain == MainInit /\ [][MainNext]_vars

----------------------------------------------------------------------------
(* BuildManager: prepare_build_environment puts the translation of every   *)
(* Markdown file that has one in the place of the file, after it has       *)
(* copied the file to a backup; restore_build_environment moves every      *)
(* backup back.  The copies and the move are taken to succeed.  The        *)
(* content of a file is named by the path that held it at the start, so    *)
(* every file starts with a content of its own.                            *)

MaxPrepares == 2

\* os.path.exists
exists(fs, f) == f \in DOMAIN fs /\ fs[f] # NoFile

\* BuildManager._get_markdown_files: every file of the directory whose name
\* ends in .md or .markdown
build_markdown_files(fs) == {f \in DOMAIN fs : exists(fs, f) /\ is_markdown(f)}

\* the orders in which os.walk can hand out the files of a set
WalkOrders(S) ==
    {o \in [1..Cardinality(S) -> S] : \A i, j \in 1..Cardinality(S) : o[i] = o[j] => i = j}

\* one iteration of the loop of prepare_build_environment, the translation
\* copied over the source without a backup
prepare_file_no_backup(fs, source_file) ==
    IF exists(fs, output_path(source_file))
    THEN [fs EXCEPT ![source_file] = fs[output_path(source_file)]]
    ELSE fs

\* one iteration of the loop of prepare_build_environment
prepare_file(fs, source_file) ==
    IF exists(fs, output_path(source_file))
    THEN [fs EXCEPT ![backup_file(source_file)] = fs[source_file],
                    ![source_file] = fs[output_path(source_file)]]
    ELSE fs

\* "for source_file in markdown_files"
RECURSIVE prepare_files(_, _)
prepare_files(fs, order) ==
    IF order = <<>> THEN fs
    ELSE prepare_files(prepare_file(fs, Head(order)), Tail(order))

\* file.endswith(self.backup_suffix)
is_backup(f) == f # <<>> /\ f[Len(f)] = BackupSuffix

\* restore_build_environment: shutil.move of every backup to the path
\* without the suffix
restore_build_environment(fs) ==
    [f \in DOMAIN fs |->
        IF is_backup(f) THEN NoFile
        ELSE IF exists(fs, backup_file(f)) THEN fs[backup_file(f)]
        ELSE fs[f]]

BuildInit ==
    /\ \E present \in SUBSET BuildFiles :
          build_files = [f \in BuildPaths |->
                            IF f \in present THEN f ELSE NoFile]
    /\ build_original = build_files
    /\ prepares = 0
    /\ bpc = "input"
    /\ IgnoreIdle
    /\ WalkIdle
    /\ LoopIdle
    /\ MainIdle
    /\ ScanIdle
    /\ RunInit
    /\ root_prefix = <<>>
    /\ commits = <<>>
    /\ JobIdle
    /\ CacheEmpty
    /\ content = <<>>
    /\ chunk_size = 1
    /\ chunks = <<>>
    /\ spc = "input"

\* prepare_build_environment
Prepare ==
    /\ bpc = "prepared" => prepares < MaxPrepares
    /\ \E order \in WalkOrders(build_markdown_files(build_files)) :
          build_files' = prepare_files(build_files, order)
    /\ build_original' = IF bpc = "prepared" THEN build_original ELSE build_files
    /\ prepares' = IF bpc = "prepared" THEN prepares + 1 ELSE 1
    /\ bpc' = "prepared"
    /\ UNCHANGED <<svars, rvars, jvars, cvars, ivars, wvars, lvars, mvars, hvars>>

\* restore_build_environment
Restore ==
    /\ bpc \in {"input", "prepared"}
    /\ build_files' = restore_build_environment(build_files)
    /\ bpc' = "restored"
    /\ UNCHANGED <<build_original, prepares, svars, rvars, jvars, cvars, ivars, wvars, lvars, mvars, hvars>>

BuildNext ==
    \/ Prepare
    \/ Restore

SpecBuild == BuildInit /\ [][BuildNext]_vars

----------------------------------------------------------------------------
(* The line loop of _split_markdown_content, one line at a time, followed  *)
(* by the pass over the chunks that are longer than the limit.  The        *)
(* documents hold heading lines and rule lines of HeaderRuleLen hashes,    *)
(* and one limit is large enough for such a line to be added to a chunk    *)
(* that is longer than half of the limit.                                  *)

MaxScanLines == 3

\* the lines documents are built from; the longest is "#" * 40
ScanLineSet ==
    { <<>>, <<"a">>, <<"a", "a", "a">>, <<HS>>, <<HS, "a">>, <<BT, BT, BT>>,
      [n \in 1..HeaderRuleLen |-> HS] }

\* documents of up to MaxScanLines lines; the limits are those of the
\* splitter and the smallest one under which a rule line is added to a chunk
\* of a short line and a rule line
ScanInit ==
    /\ \E n \in 1..MaxScanLines : \E ls \in [1..n -> ScanLineSet] : content = join_lines(ls)
    /\ chunk_size \in (1..MaxLimit) \cup {2 * (HeaderRuleLen + 1) + 2}
    /\ chunks = <<>>
    /\ spc = "input"
    /\ ScanIdle
    /\ IgnoreIdle
    /\ WalkIdle
    /\ LoopIdle
    /\ MainIdle
    /\ BuildIdle
    /\ RunInit
    /\ root_prefix = <<>>
    /\ commits = <<>>
    /\ JobIdle
    /\ CacheEmpty

\* one iteration of "for line in lines"
ScanLine ==
    /\ spc = "input"
    /\ line_no < Len(split_lines(content))
    /\ scan' = process_line(scan, split_lines(content)[line_no + 1], chunk_size)
    /\ line_no' = line_no + 1
    /\ UNCHANGED <<svars, rvars, jvars, cvars, ivars, wvars, lvars, mvars, bvars>>

\* after the loop: the last chunk is added and the chunks longer than the
\* limit are split again
ScanEnd ==
    /\ spc = "input"
    /\ line_no = Len(split_lines(content))
    /\ chunks' = final_chunks(flush(scan.chunks, scan.current_chunk), chunk_size)
    /\ spc' = "done"
    /\ UNCHANGED <<content, chunk_size, hvars>>
    /\ UNCHANGED <<rvars, jvars, cvars, ivars, wvars, lvars, mvars, bvars>>

ScanNext ==
    \/ ScanLine
    \/ ScanEnd

SpecScan == ScanInit /\ [][ScanNext]_vars

----------------------------------------------------------------------------
(* Properties of the splitter                                              *)

\* x occurs in s as a contiguous piece
IsSubstring(x, s) ==
    \E i \in 0..(Len(s) - Len(x)) : SubSeq(s, i + 1, i + Len(x)) = x

\* the fenced code blocks of a sequence of lines, as <<opening, closing>> line
\* numbers: a block opens at a fence line met outside a block and closes at the
\* next line that starts with the same fence
RECURSIVE BlocksFrom(_, _, _, _)
BlocksFrom(lines, i, open, acc) ==
    IF i > Len(lines) THEN acc
    ELSE IF open = 0
         THEN BlocksFrom(lines, i + 1, IF is_fence_line(lines[i]) THEN i ELSE 0, acc)
         ELSE IF startswith(lines[i], Prefix(lines[open], 3))
              THEN BlocksFrom(lines, i + 1, 0, acc \cup {<<open, i>>})
              ELSE BlocksFrom(lines, i + 1, open, acc)

FencedBlocks(lines) == BlocksFrom(lines, 1, 0, {})

\* the number of fence markers of a text: the lines that open or close a block
RECURSIVE MarkersFrom(_, _, _)
MarkersFrom(lines, i, open) ==
    IF i > Len(lines) THEN 0
    ELSE IF open = 0
         THEN IF is_fence_line(lines[i]) THEN 1 + MarkersFrom(lines, i + 1, i)
              ELSE MarkersFrom(lines, i + 1, 0)
         ELSE IF startswith(lines[i], Prefix(lines[open], 3))
              THEN 1 + MarkersFrom(lines, i + 1, 0)
              ELSE MarkersFrom(lines, i + 1, open)

FenceMarkers(text) == MarkersFrom(split_lines(text), 1, 0)

\* every fenced block of the text is closed
AllFencesClosed(text) == FenceMarkers(text) % 2 = 0

\* the text from the opening line to the closing line of a block
BlockText(lines, b) == join_lines(SubSeq(lines, b[1], b[2]))

\* the chunk is one fenced code block and nothing else
IsSingleFencedBlock(chunk) ==
    LET ls == split_lines(chunk)
    IN  FencedBlocks(ls) = {<<1, Len(ls)>>}

\* the non-blank lines of a text, each without its trailing whitespace
RECURSIVE NonBlankOf(_)
NonBlankOf(lines) ==
    IF lines = <<>> THEN <<>>
    ELSE (IF non_blank(Head(lines)) THEN <<rstrip(Head(lines))>> ELSE <<>>)
         \o NonBlankOf(Tail(lines))

NonBlankLines(text) == NonBlankOf(split_lines(text))

RECURSIVE ChunkLines(_)
ChunkLines(chunk_list) ==
    IF chunk_list = <<>> THEN <<>>
    ELSE NonBlankLines(Head(chunk_list)) \o ChunkLines(Tail(chunk_list))

\* the paragraph split cuts a paragraph at the limit: a chunk of the line loop
\* is over the limit and one of its paragraphs is over the limit too
HardCut(text, size) ==
    LET cs == line_chunks(text, size)
    IN  \E k \in 1..Len(cs) :
            /\ Len(cs[k]) > size
            /\ LET ps == re_split(cs[k]) IN \E j \in 1..Len(ps) : Len(ps[j]) > size

\* a heading line after the first line of the text
HeadingAfterFirstLine(text) ==
    LET ls == split_lines(text) IN \E i \in 2..Len(ls) : is_header(ls[i])

\* C1: the opening and the closing fence line of a fenced code block are never
\* in different chunks: the whole block, from its opening line to its closing
\* line, lies inside one chunk, also when the block is longer than the limit.
C1_BlockInOneChunk ==
    spc = "done" =>
        LET ls == split_lines(content)
        IN  \A b \in FencedBlocks(ls) :
                \E k \in 1..Len(chunks) : IsSubstring(BlockText(ls, b), chunks[k])

\* C2: when every fenced block of the document is closed, every returned chunk
\* holds an even number of fence markers (no chunk has an unterminated fence).
C2_EvenFencesPerChunk ==
    (spc = "done" /\ AllFencesClosed(content)) =>
        \A k \in 1..Len(chunks) : FenceMarkers(chunks[k]) % 2 = 0

C4_Original ==
    spc = "done" => ChunkLines(chunks) = NonBlankLines(content)

\* C4 as amended: unless a paragraph longer than the limit is cut at the limit,
\* every non-blank input line is, up to its trailing whitespace, in exactly one
\* chunk, whole and in the original order.
C4_LinesKeptWithoutHardCut ==
    (spc = "done" /\ ~HardCut(content, chunk_size)) =>
        ChunkLines(chunks) = NonBlankLines(content)

\* a document that the line loop left over the limit, split at a blank line
\* into several chunks without a cut at the limit
C4_Witness ==
    /\ spc = "done"
    /\ ~HardCut(content, chunk_size)
    /\ \E k \in 1..Len(line_chunks(content, chunk_size)) :
           Len(line_chunks(content, chunk_size)[k]) > chunk_size
    /\ Len(chunks) >= 2

\* C5: no returned chunk is longer than the limit unless it is a single fenced
\* code block; every piece of a paragraph cut at the limit is within the limit.
C5_ChunkWithinLimit ==
    spc = "done" =>
        \A k \in 1..Len(chunks) :
            Len(chunks[k]) <= chunk_size \/ IsSingleFencedBlock(chunks[k])

----------------------------------------------------------------------------
(* Properties of the directory run                                         *)

\* a run is past change detection: in its loop or finished
InRun == pc \in {"translating", "done"}

\* the step that ends a run
RunEnds == pc = "translating" /\ pc' = "done"

\* C6: an incremental run in which files were attempted and none was
\* translated successfully leaves the checkpoint file exactly as it was before
\* the run.
C6_CheckpointOnlyAfterSuccess ==
    (pc = "done" /\ incremental /\ attempted # {} /\ translated_files = <<>>) =>
        state_file = state_before

\* C7 as stated: an incremental run started with no checkpoint processes every
\* candidate, and when it ends with a successful translation the checkpoint
\* holds the revision and the ignore fingerprint current at that moment.
C7_Original ==
    [][(RunEnds /\ incremental /\ state_before.kind = "absent" /\ translated_files # <<>>) =>
          /\ attempted = candidates
          /\ state_file' = saved_state(state_file, _get_git_commit_hash(commits),
                                       _calculate_ignore_hash(ignore_patterns, gitignore,
                                                              aitdocsignore))]_vars

\* C7 as amended: an incremental run started with no checkpoint processes every
\* candidate, and when it ends with a successful translation, the current
\* revision can be resolved and the checkpoint file can be written, the
\* checkpoint holds the revision and the ignore fingerprint current at that
\* moment.
C7_FirstRunCheckpoint ==
    [][(RunEnds /\ incremental /\ state_before.kind = "absent" /\ translated_files # <<>>
        /\ _get_git_commit_hash(commits) # 0 /\ ~write_failed') =>
          /\ attempted = candidates
          /\ state_file' = saved_state(state_file, _get_git_commit_hash(commits),
                                       _calculate_ignore_hash(ignore_patterns, gitignore,
                                                              aitdocsignore))]_vars

\* a first incremental run in a repository has translated a file and written
\* the checkpoint
C7_Witness ==
    /\ pc = "done" /\ incremental /\ state_before.kind = "absent"
    /\ translated_files # <<>> /\ attempted = candidates
    /\ ~write_failed /\ state_file.kind = "json"
    /\ state_file.last_commit_hash = _get_git_commit_hash(commits)

\* C8: an incremental run that finds a checkpoint holding the current revision
\* and the current ignore fingerprint processes no file and requests no
\* translation.
C8_NothingChangedNothingProcessed ==
    (/\ InRun /\ incremental /\ state_before.kind = "json"
     /\ state_before.last_commit_hash = current_commit
     /\ state_before.ignore_hash = current_ignore_hash) =>
        /\ selected = {} /\ attempted = {} /\ translated_files = <<>>

\* a second incremental run has ended over candidates, at the revision and
\* the fingerprint of the checkpoint the run before it wrote
C8_Witness ==
    /\ pc = "done" /\ incremental /\ runs = 2 /\ state_before.kind = "json"
    /\ state_before.last_commit_hash = current_commit
    /\ state_before.ignore_hash = current_ignore_hash
    /\ candidates # {} /\ attempted = {}

\* the candidates whose content differs between two revisions
differing(files, history, last_commit, cur_commit) ==
    {f \in files : history[last_commit][f] # history[cur_commit][f]}

\* C9: in an incremental run with a valid checkpoint, unchanged ignore rules
\* and a revision comparison that succeeded, the files processed are exactly
\* the candidates that differ between the checkpoint revision and the current
\* revision, wherever the processing root lies in the repository.
C9_ExactlyChangedProcessed ==
    (InRun /\ incremental /\ branch = "diff") =>
        selected = differing(candidates, commits, state_before.last_commit_hash,
                             current_commit)

\* C10: an incremental run whose ignore fingerprint differs from the one in
\* the checkpoint processes every candidate, whatever the revisions are.
C10_FingerprintChangeForcesAll ==
    (/\ InRun /\ incremental /\ state_before.kind = "json"
     /\ current_ignore_hash # state_before.ignore_hash) =>
        /\ selected = candidates
        /\ pc = "done" => attempted = candidates

\* an incremental run at the revision of the checkpoint, with another
\* fingerprint, has processed its candidates
C10_Witness ==
    /\ pc = "done" /\ incremental /\ state_before.kind = "json"
    /\ current_ignore_hash # state_before.ignore_hash
    /\ current_commit = state_before.last_commit_hash
    /\ candidates # {} /\ attempted = candidates

----------------------------------------------------------------------------
(* Properties of change detection and of the checkpoint file               *)

\* a run has been started: it is in its loop, or it is over
Started == pc # "idle"

\* C11: when the current revision cannot be resolved, the checkpoint names no
\* revision or one git cannot resolve, or git diff fails, change detection
\* raises nothing and the incremental run processes every candidate file.
C11_DetectionFailsSoft ==
    (/\ Started /\ incremental
     /\ \/ current_commit = 0
        \/ state_before.kind = "json" /\ state_before.last_commit_hash \notin 1..current_commit
        \/ branch = "diff_failed") =>
        /\ pc # "aborted"
        /\ selected = candidates

\* C12: a checkpoint file whose content cannot be parsed is read as None,
\* without an error, and the incremental run that finds it processes every
\* candidate file.
C12_UnparsableCheckpointIsAbsent ==
    (Started /\ incremental /\ state_before.kind \in {"malformed", "undecodable"}) =>
        /\ _get_last_state(state_before) = NoState
        /\ pc # "aborted"
        /\ selected = candidates

\* C13: when the process is killed during the write of the checkpoint, the
\* file holds the complete checkpoint it held before or the complete new one.
C13_WriteIsAtomic ==
    [][(pc = "translating" /\ pc' = "crashed") =>
          state_file' \in { state_file,
                            saved_state(state_file, _get_git_commit_hash(commits),
                                        _calculate_ignore_hash(ignore_patterns, gitignore,
                                                               aitdocsignore)) }]_vars

\* C14: a run that ends over a parsable checkpoint file leaves a parsable
\* file with every key other than last_commit_hash and ignore_hash as it was.
C14_OtherKeysKept ==
    (pc = "done" /\ state_before.kind = "json") =>
        /\ state_file.kind = "json"
        /\ state_file.other = state_before.other

\* a run has rewritten a checkpoint file that had a key of its own
C14_Witness ==
    /\ pc = "done" /\ state_before.kind = "json" /\ state_before.other # {}
    /\ state_file.last_commit_hash # state_before.last_commit_hash
    /\ state_file.other = state_before.other

----------------------------------------------------------------------------
(* Properties of the jobs of a run                                         *)

\* the elements of a list
Range(list) == {list[i] : i \in 1..Len(list)}

\* C15: a file whose job fails does not stop the run: when the run ends every
\* selected file has been attempted, and the list the run returns holds, once
\* each, exactly the output paths of the attempted files whose job succeeded.
C15_FailureIsolated ==
    InRun =>
        /\ pc = "done" => attempted = selected
        /\ failed \subseteq attempted
        /\ Range(translated_files) = {output_path(f) : f \in attempted \ failed}
        /\ Len(translated_files) = Cardinality(attempted \ failed)

\* a run has ended in which the job of the first file failed and the job of
\* a later file succeeded
C15_Witness ==
    /\ pc = "done" /\ Cardinality(selected) > 1
    /\ failed = {next_file(selected)}
    /\ translated_files # <<>>

\* the answers of the model for a list of chunks
RECURSIVE translate_all(_)
translate_all(list) ==
    IF list = <<>> THEN <<>>
    ELSE <<async_translate_text(Head(list))>> \o translate_all(Tail(list))

\* C16: the file at the output path changes only in the step that writes the
\* joined translations of all the chunks of the file: while chunks are still
\* to be translated, and after a chunk has failed or the job was interrupted,
\* the file is neither created nor modified.
C16_OutputAfterAllChunks ==
    [][output_file' # output_file =>
          /\ job = "translating" /\ job' = "written"
          /\ translated_chunks = translate_all(chunks)
          /\ output_file' = join_chunks(translate_all(chunks))]_vars

\* the translation of a later chunk has failed after a chunk was translated,
\* and the output path still holds the text it held before the call
C16_Witness ==
    /\ job = "failed" /\ translated_chunks # <<>>
    /\ output_file = OldOutput

----------------------------------------------------------------------------
(* Properties of the cache                                                 *)

\* C17: in an incremental run, a file that is translated (a cache miss) has
\* its translation stored in the cache under its content.
C17_TranslationStoredInCache ==
    [][(pc = "translating" /\ incremental /\ Len(translated_files') > Len(translated_files)) =>
          cache_files'[disk[next_file(markdown_files)]] # NoFile]_vars

\* C18: a get that reads the entry returns the text of the last successful
\* put for the content, and None when there was no put for it; a successful
\* put of the text the last successful put for the content stored leaves the
\* cache directory as it is.
C18_GetAfterPut ==
    [][/\ (got'.op = "get" /\ got'.error = "none" /\ expect[got'.content] # Unknown) =>
              got'.result = expect[got'.content]
       /\ (got'.op = "put" /\ got'.error = "none"
           /\ expect[got'.content] = cache_files'[got'.content]) =>
              cache_files' = cache_files]_vars

\* C19: a successful put leaves the entry of every other content as it is, no
\* put removes an entry, and the get that follows a successful put for a
\* content that had an entry returns the text of that last put.
C19_LastWriterWins ==
    [][/\ (got'.op = "put" /\ got'.error = "none") =>
              \A x \in Contents \ {got'.content} : cache_files'[x] = cache_files[x]
       /\ \A x \in Contents : cache_files[x] # NoFile => cache_files'[x] # NoFile
       /\ (got'.op = "get" /\ got'.error = "none" /\ got.op = "put" /\ got.error = "none"
           /\ got.replaced /\ got.content = got'.content) =>
              got'.result = expect[got.content]]_vars

\* C20: no call of the cache manager raises: a get whose entry cannot be read
\* returns None, and a put whose entry cannot be written returns.
C20_CacheFailuresNotFatal ==
    /\ got.error # "raised"
    /\ (got.op = "get" /\ got.error = "logged") => got.result = None

\* a get has met an entry it could not read, after a put that could not write
C20_Witness ==
    /\ got.op = "get" /\ got.error = "logged"
    /\ cache_files[got.content] # NoFile
    /\ \E x \in Contents : expect[x] = Unknown

----------------------------------------------------------------------------
(* Properties of the ignore rules                                          *)

\* the rules the caller's list gives: the list, then the defaults
Rules == extended_patterns(caller_list, <<>>, <<>>)

\* a pattern matches the full relative path or the basename
matches_path(path, pattern) == fnmatch(path, pattern) \/ fnmatch(basename(path), pattern)

\* C22: the fingerprint of a rule list equals the fingerprint of every
\* reordering of the list, and differs from the fingerprint of the list with one
\* pattern added, removed or edited.
C22_FingerprintOrderFree ==
    ipc # "input" =>
        /\ fingerprints.reordered = fingerprints.list
        /\ fingerprints.changed # fingerprints.list

\* C22 witness: the fingerprints of a list of two patterns, of the list in the
\* other order and of the list with one pattern edited have been computed
C22_Witness ==
    /\ ipc = "hashed"
    /\ Len(caller_list) = 2
    /\ reordered # caller_list
    /\ Len(changed) = 2
    /\ fingerprints.reordered = fingerprints.list
    /\ fingerprints.changed # fingerprints.list

\* C23 as stated: _should_ignore is true exactly when some pattern matches,
\* where a pattern ending in a separator is considered only for a directory and
\* every other pattern is considered for files and for directories.
C23_Original ==
    ipc = "asked" =>
        query.result =
            \E i \in 1..Len(Rules) :
                IF is_dir_pattern(Rules[i])
                THEN query.is_dir /\ matches_path(query.path, rstrip_sep(Rules[i]))
                ELSE matches_path(query.path, Rules[i])

\* C23 amended: _should_ignore is true exactly when some pattern matches,
\* where a pattern ending in a separator is considered only for a directory and
\* every other pattern is considered only for a path that is not a directory;
\* a pattern matches when it matches the full relative path or the basename.
C23_ShouldIgnoreByKind ==
    ipc = "asked" =>
        query.result =
            IF query.is_dir
            THEN \E i \in 1..Len(Rules) :
                    /\ is_dir_pattern(Rules[i])
                    /\ matches_path(query.path, rstrip_sep(Rules[i]))
            ELSE \E i \in 1..Len(Rules) :
                    /\ ~is_dir_pattern(Rules[i])
                    /\ matches_path(query.path, Rules[i])

\* C23 witness: _should_ignore was asked about the directory .git, which the
\* default pattern .git names, and answered that it is not ignored
C23_Witness ==
    /\ ipc = "asked"
    /\ query.is_dir
    /\ query.path = <<".git">>
    /\ ~query.result

\* x lies below the directory dir
Beneath(x, dir) == startswith(x, dir \o <<SEP>>)

\* the ignore rules exclude the directory dir: a pattern, without its trailing
\* separators, matches its relative path or its name
excluded(dir, patterns) ==
    /\ dir # <<>>
    /\ \E i \in 1..Len(patterns) : matches_path(dir, rstrip_sep(patterns[i]))

\* C24: the walk visits no directory below a directory the ignore rules
\* exclude, and no file below such a directory is among the candidates.
C24_IgnoredDirectoryPruned ==
    wpc = "done" =>
        \A d \in DirsOf(tree) :
            excluded(d, extended_patterns(walk_patterns, <<>>, <<>>)) =>
                /\ \A v \in visited : ~Beneath(v, d)
                /\ \A f \in listed : ~Beneath(f, d)

----------------------------------------------------------------------------
(* Properties of the loop over the files                                   *)

\* the jobs the for loop lets run at a time: "await
\* self.translate_markdown_file(...)" ends before the next iteration begins
WorkerBudget == 1

\* C26: the number of calls of translate_markdown_file that have been started
\* and have not ended never exceeds the worker budget, a positive integer.
C26_JobsWithinBudget ==
    /\ WorkerBudget > 0
    /\ Cardinality(in_flight) <= WorkerBudget

\* C26 witness: the job of the second file of a run is under way, the job of
\* the first has ended
C26_Witness ==
    /\ pc = "translating"
    /\ Cardinality(in_flight) = 1
    /\ Cardinality(attempted) = 2

----------------------------------------------------------------------------
(* Properties of the command line entry point                              *)

\* C27: main returns a non-zero code without a translation request when the
\* input file or directory is missing, and returns 0 with every file translated
\* for an existing directory whose files the service all translates.
C27_ExitCodeTellsOutcome ==
    mpc = "done" =>
        /\ (args.mode \in {"file", "directory"} /\ ~args.exists) =>
               exit_code # 0 /\ requests = 0
        /\ (args.mode = "directory" /\ args.exists /\ service) =>
               exit_code = 0 /\ outputs = args.files

----------------------------------------------------------------------------
(* Properties of the directory run across runs                             *)

C28_FailedFileRetried ==
    [][(/\ pc = "done" /\ incremental /\ failed # {}
        /\ pc' = "translating" /\ incremental'
        /\ current_commit' = current_commit
        /\ current_ignore_hash' = current_ignore_hash) =>
          (failed \cap candidates') \subseteq selected']_vars

\* C29: no candidate of a run is an output path of a run, and no output of an
\* output is ever written.
C29_OutputsNotCandidates ==
    /\ candidates \cap {output_path(g) : g \in FileUniverse} = {}
    /\ \A f \in SourceFiles : disk[output_path(output_path(f))] = 0

\* C30: the revision in the checkpoint an incremental run has written is the
\* revision the run used for change detection.
C30_CheckpointRevisionIsRunRevision ==
    (/\ pc = "done" /\ incremental /\ current_commit # 0
     /\ ~write_failed /\ state_file.kind = "json") =>
        state_file.last_commit_hash = current_commit

----------------------------------------------------------------------------
(* Properties of the chunks of one file                                    *)

\* C31: within one file the chunks are translated one at a time and in
\* order: a step that obtains an answer obtains exactly the answer for the
\* chunk that follows the chunks already answered, and the text written to
\* the output path is the answers joined by a blank line in the order of the
\* chunks.
C31_ChunksInOrder ==
    [][/\ translated_chunks' # translated_chunks =>
             /\ Len(translated_chunks) < Len(chunks)
             /\ translated_chunks' =
                   Append(translated_chunks,
                          async_translate_text(chunks[Len(translated_chunks) + 1]))
       /\ (job' = "written" /\ job # "written") =>
             /\ \A i \in 1..Len(chunks) :
                   translated_chunks[i] = async_translate_text(chunks[i])
             /\ Len(translated_chunks) = Len(chunks)
             /\ output_file' = join_chunks(translated_chunks)]_vars

\* a file of two different chunks has been translated and written
C31_Witness ==
    /\ job = "written" /\ Len(chunks) = 2 /\ chunks[1] # chunks[2]
    /\ output_file = async_translate_text(chunks[1]) \o <<NL, NL>>
                        \o async_translate_text(chunks[2])

----------------------------------------------------------------------------
(* Properties of BuildManager                                              *)

\* the files of the directory for which a translated file exists
has_translation(fs) == {f \in build_markdown_files(fs) : exists(fs, output_path(f))}

\* C32: from a directory without backups, one prepare replaces only the
\* Markdown files that have a translated file, keeping a backup of each, and
\* leaves every other file as it was; the restore that follows gives every
\* file its original content again and leaves no backup.
C32_PrepareRestoreRoundTrip ==
    /\ (bpc = "prepared" /\ prepares = 1) =>
          \A f \in BuildFiles :
              IF f \in has_translation(build_original)
              THEN build_files[backup_file(f)] = build_original[f]
              ELSE /\ build_files[f] = build_original[f]
                   /\ ~exists(build_files, backup_file(f))
    /\ (bpc = "restored" /\ prepares <= 1) =>
          /\ \A f \in BuildFiles : build_files[f] = build_original[f]
          /\ \A f \in BuildPaths : is_backup(f) => ~exists(build_files, f)

\* a source was replaced by its translation and a file without one was
\* left alone, then both hold their original content after the restore
C32_Witness ==
    /\ bpc = "restored" /\ prepares = 1
    /\ has_translation(build_original) # {}
    /\ build_markdown_files(build_original) \ has_translation(build_original) # {}
    /\ build_files = build_original

\* C33: after one or more prepares in a row and one restore, every Markdown
\* file holds the content it had before the first prepare.
C33_RepeatedPrepareKeepsOriginal ==
    (bpc = "restored" /\ prepares >= 1) =>
        \A f \in BuildFiles : build_files[f] = build_original[f]

----------------------------------------------------------------------------
(* Properties of the output paths                                          *)

\* C34: two different candidate files of a directory run have different
\* output paths, so no translation of a run is written over another one.
C34_OutputPathsDistinct ==
    wpc = "done" =>
        \A f, g \in listed : f # g => output_path(f) # output_path(g)

----------------------------------------------------------------------------
(* Properties of the content of the chunks                                 *)

\* the characters of a text that are not whitespace, in order
non_space(s) == SelectSeq(s, LAMBDA c : ~IsSpace(c))

\* the chunks of a list put one after the other
RECURSIVE concat(_)
concat(list) == IF list = <<>> THEN <<>> ELSE Head(list) \o concat(Tail(list))

\* the chunks hold the non-whitespace characters of the document, once each
\* and in order
content_kept == non_space(concat(chunks)) = non_space(content)

\* no chunk is empty or made of whitespace only
no_blank_chunk == \A i \in 1..Len(chunks) : non_blank(chunks[i])

\* C35: the chunks of a document, put one after the other, hold exactly the
\* non-whitespace characters of the document in their order, and no chunk is
\* empty or made of whitespace only.
C35_ContentKept ==
    spc = "done" => content_kept /\ no_blank_chunk

----------------------------------------------------------------------------
(* Properties of the heading rule                                          *)

\* the number of hashes a line begins with
RECURSIVE leading_hashes(_)
leading_hashes(line) ==
    IF line # <<>> /\ Head(line) = HS THEN 1 + leading_hashes(Tail(line)) ELSE 0

\* a heading line: it begins with fewer hashes than a rule line has
heading_line(line) == leading_hashes(line) \in 1..(HeaderRuleLen - 1)

\* a rule line: HeaderRuleLen hashes or more and nothing else
rule_line(line) == leading_hashes(line) = Len(line) /\ Len(line) >= HeaderRuleLen

\* the line the loop processes in the step from line_no to line_no + 1
scanned_line == split_lines(content)[line_no + 1]

\* C38: outside a code block, a heading line that is reached while the chunk
\* in progress is non-blank and longer than half of the limit closes that
\* chunk and starts the next one; a line that begins with a hash inside a
\* code block is added to the chunk in progress, and so is, outside a code
\* block, a rule line of HeaderRuleLen hashes or more that fits the limit:
\* neither closes a chunk.
C38_HeadingRule ==
    [][line_no' = line_no + 1 =>
          /\ (/\ ~scan.in_code_block
              /\ heading_line(scanned_line)
              /\ non_blank(scan.current_chunk)
              /\ 2 * Len(scan.current_chunk) > chunk_size) =>
                  /\ scan'.chunks = Append(scan.chunks, rstrip(scan.current_chunk))
                  /\ scan'.current_chunk = scanned_line \o <<NL>>
          /\ (scan.in_code_block /\ startswith(scanned_line, <<HS>>)) =>
                  /\ scan'.chunks = scan.chunks
                  /\ endswith(rstrip(scan'.current_chunk), scanned_line)
                  /\ Len(scan'.current_chunk) = Len(scan.current_chunk) + Len(scanned_line) + 1
          /\ (/\ ~scan.in_code_block
              /\ rule_line(scanned_line)
              /\ Len(scan.current_chunk) + Len(scanned_line) + 1 <= chunk_size) =>
                  /\ scan'.chunks = scan.chunks
                  /\ scan'.current_chunk = scan.current_chunk \o scanned_line \o <<NL>>]_vars

\* a heading line that fits the limit has closed a chunk that was longer than
\* half of the limit, and the returned chunks are those of the splitter
C38_Witness ==
    /\ spc = "done" /\ line_no >= 2
    /\ heading_line(split_lines(content)[line_no])
    /\ ~scan.in_code_block
    /\ Len(scan.chunks) = 1
    /\ Len(scan.chunks[1]) + Len(scan.current_chunk) + 1 <= chunk_size
    /\ scan.current_chunk = split_lines(content)[line_no] \o <<NL>>
    /\ Len(chunks) = 2
    /\ chunks = split_markdown_content(content, chunk_size)

\* a rule line was added to a chunk longer than half of the limit
C38_RuleLineKept ==
    /\ line_no = 3 /\ rule_line(split_lines(content)[3])
    /\ scan.chunks = <<>>
    /\ 2 * (Len(scan.current_chunk) - HeaderRuleLen - 1) > chunk_size

\* a line that begins with a hash was added inside a code block to a chunk
\* longer than half of the limit
C38_HashInBlock ==
    /\ line_no = 3 /\ split_lines(content)[3] = <<HS>> /\ scan.in_code_block
    /\ scan.chunks = <<>>
    /\ 2 * (Len(scan.current_chunk) - 2) > chunk_size

----------------------------------------------------------------------------
(* Properties of the fingerprint and of the caller's list                  *)

\* C36: two rule lists that hold the same patterns, one of them holding a
\* pattern more than once, have the same fingerprint.
C36_FingerprintDeduplicated ==
    (ipc # "input" /\ Range(extended_patterns(changed, <<>>, <<>>)) = Range(Rules)) =>
        fingerprints.changed = fingerprints.list

\* C37: the enumeration of a run leaves the caller's list of patterns as it
\* was passed, and the fingerprint an incremental run compares and stores is
\* the one IgnorePatternManager.get_ignore_hash gives for the directory and
\* the caller's patterns.
C37_CallerListUnchanged ==
    [][(pc # "translating" /\ pc' = "translating") =>
          \E caller_patterns \in CallerPatterns :
              /\ ignore_patterns' = caller_patterns
              /\ incremental' =>
                    current_ignore_hash' =
                        get_ignore_hash(caller_patterns, gitignore, aitdocsignore)]_vars

----------------------------------------------------------------------------
(* Properties of a run with incremental mode off                           *)

\* C39: a run with incremental mode off does not use the checkpoint: whatever
\* the checkpoint file holds, the run is not ended by it, it selects every
\* candidate file and attempts them all, and the checkpoint file is the same
\* after the run as before it.
C39_NonIncrementalIgnoresCheckpoint ==
    (Started /\ ~incremental) =>
        /\ InRun
        /\ selected = candidates
        /\ branch = "off"
        /\ state_file = state_before
        /\ pc = "done" => attempted = candidates

\* a run with incremental mode off has ended in a repository whose
\* checkpoint file cannot be decoded: the files were attempted and the file
\* is as it was
C39_Witness ==
    /\ pc = "done" /\ ~incremental
    /\ state_before = Undecodable
    /\ candidates # {} /\ attempted = candidates
    /\ state_file = Undecodable

====
